---- MODULE Spec2Model ----
(***************************************************************************)
(* CareerMatch-AI: the conversational retrieval-answering engine           *)
(* (services/askQuestion.service.ts).  Scores and confidences are kept in  *)
(* hundredths (0.6 is 60, 1 - i*0.05 is 100 - 5*i).                        *)
(***************************************************************************)
EXTENDS Integers, Sequences, FiniteSets, TLC

\* ------------------------------------------------------------------------
\* Program constants
\* ------------------------------------------------------------------------
TOP_K == 10
MIN_SCORE == 10
MAX_HISTORY_MESSAGES == 4
MAX_TOKENS_HISTORY == 1000
CONFIDENCE_FLOOR == 60
DEFAULT_CONFIDENCE == 80
CACHE_THRESHOLD == 85

\* ------------------------------------------------------------------------
\* Bounds of the model
\* ------------------------------------------------------------------------
MaxRequests == 1
MaxJobs == 2
MaxRag == 2
MaxFailures == 1
MaxChunks == 4
MaxTurns == 5
MaxWindow == 4
MaxRetrieved == 12
MaxStored == 3
MaxWeb == 2

\* ------------------------------------------------------------------------
\* JavaScript values met by the classifier's reply
\* ------------------------------------------------------------------------
Undefined == [t |-> "undefined", v |-> 0]
Null == [t |-> "null", v |-> 0]
NaNString == [t |-> "string", v |-> 0]
Num(n) == [t |-> "number", v |-> n]

\* x < n and x > n for a number n: undefined and a non-numeric string
\* convert to NaN (every comparison false), null converts to 0
JsLess(x, n) ==
  CASE x.t = "number" -> x.v < n
    [] x.t = "null" -> 0 < n
    [] OTHER -> FALSE

JsGreater(x, n) ==
  CASE x.t = "number" -> x.v > n
    [] x.t = "null" -> 0 > n
    [] OTHER -> FALSE

MissingStr == "<undefined>"
WhitespaceOnly == {" ", "  "}
\* a validation that forgets to trim
Trim_Identity(s) == s

Trim(s) == IF s \in WhitespaceOnly THEN "" ELSE s
FalsyStr(s) == s \in {MissingStr, ""}

\* skills as the reply may carry it: absent, a list, or a bare string
SkillsUndef == [t |-> "undefined", v |-> <<>>]
SkillsArr(l) == [t |-> "array", v |-> l]
SkillsStr == [t |-> "string", v |-> <<"python">>]
TruthySkills(s) == s.t # "undefined"

\* jobSearch as the reply may carry it: absent, null or an object
JobUndef == [t |-> "undefined", skills |-> SkillsUndef]
JobNull == [t |-> "null", skills |-> SkillsUndef]
JobObj(s) == [t |-> "object", skills |-> s]
TruthyJob(j) == j.t = "object"

ValidIntents == {"resume_query", "career_guidance", "job_search", "irrelevant"}

\* ------------------------------------------------------------------------
\* Completion-provider replies to the classification prompt
\* ------------------------------------------------------------------------
NoObj ==
  [intent |-> MissingStr, confidence |-> Undefined,
   rewrittenQuery |-> MissingStr, jobSearch |-> JobUndef]

ThrowReply == [kind |-> "throw", fence |-> "none", obj |-> NoObj]
TextReply(k, f, o) == [kind |-> k, fence |-> f, obj |-> o]

ReplyIntents == ValidIntents \cup {"chitchat", MissingStr}
ReplyConfidences ==
  {Undefined, Null, NaNString, Num(-10), Num(0), Num(59), Num(60), Num(100), Num(150)}
ReplyRewrites == {MissingStr, "  ", "rq"}
ReplySkills == {SkillsUndef, SkillsArr(<<>>), SkillsArr(<<"ts">>), SkillsStr}
ReplyJobs == {JobUndef, JobNull} \cup {JobObj(s) : s \in ReplySkills}
ReplyObjs ==
  [intent : ReplyIntents, confidence : ReplyConfidences,
   rewrittenQuery : ReplyRewrites, jobSearch : ReplyJobs]
Fences == {"none", "json", "bare", "lang"}

AllReplies ==
  {ThrowReply, TextReply("garbage", "none", NoObj), TextReply("null", "none", NoObj)}
    \cup {TextReply("object", f, o) : f \in Fences, o \in ReplyObjs}

\* the replies the request pipeline is explored with
SampleObjs ==
  [intent : {"resume_query", "job_search", "irrelevant"},
   confidence : {Num(30), Num(90)},
   rewrittenQuery : {"rq"},
   jobSearch : {JobUndef, JobObj(SkillsArr(<<"ts">>))}]

SampleReplies ==
  {ThrowReply, TextReply("garbage", "none", NoObj), TextReply("null", "none", NoObj),
   TextReply("object", "lang", NoObj)}
    \cup {TextReply("object", "none", o) : o \in SampleObjs}

\* ------------------------------------------------------------------------
\* analyzeQuery
\* ------------------------------------------------------------------------
\* removal of a markdown code fence: ```json and ``` are deleted, the
\* language tag of any other fence stays in the text
StripFence(r) ==
  CASE r.fence = "json" -> [r EXCEPT !.fence = "none"]
    [] r.fence = "bare" -> [r EXCEPT !.fence = "none"]
    [] r.fence = "lang" -> [r EXCEPT !.fence = "residue"]
    [] OTHER -> r

\* JSON.parse succeeds on a bare JSON text
JsonParses(r) == r.fence = "none" /\ r.kind \in {"null", "object"}

\* a fallback that lets the question through as a resume query
SafeDefault_ResumeQuery(q) ==
  [intent |-> "resume_query", confidence |-> Num(DEFAULT_CONFIDENCE),
   rewrittenQuery |-> q, jobSearch |-> JobUndef]

SafeDefault(q) ==
  [intent |-> "irrelevant", confidence |-> Num(0),
   rewrittenQuery |-> q, jobSearch |-> JobUndef]

NormIntent(a) ==
  IF a.intent \notin ValidIntents
    THEN [a EXCEPT !.intent = "irrelevant", !.confidence = Num(0)]
    ELSE a

NormConfidence(a) ==
  IF JsLess(a.confidence, 0) \/ JsGreater(a.confidence, 100)
    THEN [a EXCEPT !.confidence =
            IF a.intent = "irrelevant" THEN Num(0) ELSE Num(DEFAULT_CONFIDENCE)]
    ELSE a

NormRewritten(a, q) ==
  IF FalsyStr(a.rewrittenQuery) \/ Trim(a.rewrittenQuery) = ""
    THEN [a EXCEPT !.rewrittenQuery = q]
    ELSE a

NormJobSearch(a) ==
  LET b == IF a.intent # "job_search" THEN [a EXCEPT !.jobSearch = JobUndef] ELSE a
  IN  IF b.intent = "job_search" /\ ~TruthyJob(b.jobSearch)
        THEN [b EXCEPT !.jobSearch = JobObj(SkillsArr(<<>>))]
        ELSE IF b.intent = "job_search" /\ ~TruthySkills(b.jobSearch.skills)
          THEN [b EXCEPT !.jobSearch = [b.jobSearch EXCEPT !.skills = SkillsArr(<<>>)]]
          ELSE b

analyzeQuery(q, reply) ==
  IF reply.kind = "throw" THEN SafeDefault(q)
  ELSE LET text == StripFence(reply)
       IN  IF ~JsonParses(text) \/ text.kind = "null"
             THEN SafeDefault(q)
             ELSE NormJobSearch(NormRewritten(NormConfidence(NormIntent(text.obj)), q))

\* ------------------------------------------------------------------------
\* Texts, chunks and bundles
\* ------------------------------------------------------------------------
Q1 == "What is my name?"
Q2 == "Find me backend jobs"
Questions == {"", "  ", Q1, Q2}
Users == {"u1", "u2"}

\* conversation ids: 0 stands for an absent (undefined or empty) id,
\* GhostId for an id the conversation store does not hold
NoConv == 0
GhostId == -1

GuardrailMessage ==
  "I can only help with questions related to your resume, career guidance, or job search. Please ask a relevant question."
ErrorAnswer ==
  "I don't have enough information to answer this question. Please try a different question or provide more context."
InvalidQuestionAnswer == "Please provide a valid question."
ApologyAnswer == "Sorry, something went wrong. Please try again later."

ShortAnswer == "Yes."
JobRefusal == "No matching job opportunities found."
RagRefusal == "I don't have enough information"
GoodAnswer == "You worked at Acme."
Answers == {"", ShortAnswer, JobRefusal, RagRefusal, GoodAnswer}

\* answer.includes("don't have enough")
IncludesDontHaveEnough(a) == a \in {RagRefusal, ErrorAnswer}

\* completion-provider responses to a synthesis prompt: a string content,
\* a list of content blocks, or a content of another shape, of which the
\* truthiness and the string form String(content) are kept
StringContent(a) == [t |-> "string", parts |-> <<a>>]
BlockContent(l) == [t |-> "blocks", parts |-> l]
OtherContent(truthy, str) == [t |-> IF truthy THEN "truthy" ELSE "falsy", parts |-> <<str>>]
\* content: {}, content: 42 and a response without content
ObjectContent == OtherContent(TRUE, "[object Object]")
NumberContent == OtherContent(TRUE, "42")
MissingContent == OtherContent(FALSE, "undefined")
SynthResponses ==
  {StringContent(a) : a \in Answers}
    \cup {BlockContent(<<"You worked", " at Acme.">>), ObjectContent, NumberContent,
          MissingContent}

RECURSIVE JoinText(_)
JoinText(l) == IF l = <<>> THEN "" ELSE Head(l) \o JoinText(Tail(l))

RECURSIVE JoinSpace(_)
JoinSpace(l) ==
  IF l = <<>> THEN ""
  ELSE IF Len(l) = 1 THEN Head(l)
  ELSE Head(l) \o " " \o JoinSpace(Tail(l))

\* String(response.content || "") for a content that is neither a string nor
\* an array
extractAnswer(response) ==
  CASE response.t = "string" -> response.parts[1]
    [] response.t = "blocks" -> JoinText(response.parts)
    [] response.t = "truthy" -> response.parts[1]
    [] OTHER -> ""

Chunk(i, s, src) == [id |-> i, score |-> s, source |-> src]

\* searchWithJSearch: posting i (from 0) gets score 1 - i*0.05, at most 10
JobChunksOf(n) ==
  [k \in 1..(IF n < 10 THEN n ELSE 10) |-> Chunk(k, 100 - (k - 1) * 5, "job")]

\* ranked matches of the resume index, best first
RagScores == {5, 90}
RagResultSets ==
  {r \in UNION {[1..n -> RagScores] : n \in 0..MaxRag} :
     \A i \in 1..Len(r) : \A j \in i..Len(r) : r[i] >= r[j]}
RagChunksOf(r) == [k \in 1..Len(r) |-> Chunk(k, r[k], "none")]

Slice(l, n) == SubSeq(l, 1, IF Len(l) < n THEN Len(l) ELSE n)

AtLeastMinScore(c) == c.score >= MIN_SCORE

\* a relevance gate that is content with one chunk at the minimum
isContextRelevant_OneChunk(chunks) ==
  IF Len(chunks) = 0 THEN FALSE
  ELSE Len(SelectSeq(chunks, LAMBDA c : c.score >= MIN_SCORE)) >= 1

isContextRelevant(chunks) ==
  IF Len(chunks) = 0 THEN FALSE
  ELSE Len(SelectSeq(chunks, AtLeastMinScore)) >= 2

\* a chunk selection that forgets the TOP_K limit
goodRagChunks_Unlimited(results) == SelectSeq(results, AtLeastMinScore)

goodRagChunks(results) == Slice(SelectSeq(results, AtLeastMinScore), TOP_K)

RagCited(chunks) == [k \in 1..Len(chunks) |-> [chunks[k] EXCEPT !.source = "rag"]]
WebCited(chunks) == [k \in 1..Len(chunks) |-> [chunks[k] EXCEPT !.source = "web"]]

\* the web search call is disabled in askQuestion
webChunks == <<>>

Bundle(c, a, ch, s) ==
  [conversationId |-> c, answer |-> a, citedChunks |-> ch, source |-> s]
NoBundle == Bundle(NoConv, "", <<>>, "none")
InvalidBundle == Bundle(NoConv, InvalidQuestionAnswer, <<>>, "error")
FatalBundle == Bundle(NoConv, ApologyAnswer, <<>>, "error")

NoReply == [kind |-> "none", fence |-> "none", obj |-> NoObj]
NoAnalysis ==
  [intent |-> "", confidence |-> Undefined, rewrittenQuery |-> "",
   jobSearch |-> JobUndef]

\* a collaborator call of the request: what was called, on what, whether it
\* did its work (ok) or failed, and whether a failure of the cache module was
\* kept from askQuestion: swallowed inside the module, or left in a promise
\* that nothing awaits
Call(op, arg) == [op |-> op, arg |-> arg, ok |-> TRUE, kept |-> "no"]
Failed(op, arg) == [op |-> op, arg |-> arg, ok |-> FALSE, kept |-> "no"]
Swallowed(op, arg) == [op |-> op, arg |-> arg, ok |-> FALSE, kept |-> "swallowed"]
Unhandled(op, arg) == [op |-> op, arg |-> arg, ok |-> FALSE, kept |-> "unhandled"]
FailLast(cs) == [cs EXCEPT ![Len(cs)].ok = FALSE]

\* the failures injected into one request stay within MaxFailures
Failures(cs) == Cardinality({i \in 1..Len(cs) : ~cs[i].ok})
WithinFailureBudget(cs) == Failures(cs) <= MaxFailures

\* ------------------------------------------------------------------------
\* Conversation store, history and semantic cache
\* ------------------------------------------------------------------------
DefaultTitle == "Chat - 1/1/2026, 10:00:00 AM"
\* title.startsWith("Chat - ")
IsDefaultTitle(t) == Len(t) >= 7 /\ SubSeq(t, 1, 7) = "Chat - "

\* a question that begins like a default title
QChat == "Chat - what is my name?"

\* generateConversationTitle on the questions of the model: trailing
\* question marks are removed, no prefix and no truncation apply
generateConversationTitle(q) ==
  CASE q = Q1 -> "What is my name"
    [] q = Q2 -> "Find me backend jobs"
    [] q = QChat -> "Chat - what is my name"
    [] OTHER -> "New Conversation"

StoredChunks(cited) ==
  IF Len(cited) > 0 THEN [null |-> FALSE, chunks |-> cited]
  ELSE [null |-> TRUE, chunks |-> <<>>]

\* a saveMessage that never writes the row
saveMessage_Dropped(store, conv, role, text, source, cited) == store

saveMessage(store, conv, role, text, source, cited) ==
  Append(store, [conversationId |-> conv, role |-> role, text |-> text,
                 source |-> source, citedChunks |-> StoredChunks(cited)])

Reverse(l) == [i \in 1..Len(l) |-> l[Len(l) + 1 - i]]

InConversation(store, conv) == SelectSeq(store, LAMBDA m : m.conversationId = conv)

HistoryMessage(m) ==
  [type |-> IF m.role = "assistant" THEN "ai" ELSE "human", content |-> m.text]

\* a history read that forgets to put the newest-first rows back in order
getConversationHistory_NewestFirst(store, conv, limit) ==
  LET found == Slice(Reverse(InConversation(store, conv)), limit)
  IN  [i \in 1..Len(found) |-> HistoryMessage(found[i])]

getConversationHistory(store, conv, limit) ==
  LET found == Slice(Reverse(InConversation(store, conv)), limit)
      reversed == Reverse(found)
  IN  IF Len(found) = 0 THEN <<>>
      ELSE [i \in 1..Len(reversed) |-> HistoryMessage(reversed[i])]

estimateTokenCount(text) == (Len(text) + 3) \div 4

RECURSIVE FilterLoop(_, _, _, _, _)
FilterLoop(msgs, i, totalTokens, maxTokens, result) ==
  IF i < 1 THEN result
  ELSE LET msgTokens == estimateTokenCount(msgs[i].content)
       IN  IF totalTokens + msgTokens > maxTokens THEN result
           ELSE FilterLoop(msgs, i - 1, totalTokens + msgTokens, maxTokens,
                           <<msgs[i]>> \o result)

\* a token filter that lets every turn through
filterHistoryByTokens_Unbounded(msgs, maxTokens) == msgs

filterHistoryByTokens(msgs, maxTokens) == FilterLoop(msgs, Len(msgs), 0, maxTokens, <<>>)

\* a rewording of Q1 whose embedding lies within the cache threshold of Q1's
Q1Reworded == "What's my name?"

\* embedding similarity of two questions, in hundredths
Similarity(a, b) ==
  IF a = b THEN 100
  ELSE IF {a, b} = {"What is my name?", Q1Reworded} THEN 90
  ELSE 40

\* a lookup that accepts the nearest entry whatever its similarity
getCachedResponse_NoThreshold(entries, q, u) ==
  LET cand == {i \in 1..Len(entries) : entries[i].userId = u}
      best == {i \in cand : \A j \in cand :
                 Similarity(entries[i].query, q) >= Similarity(entries[j].query, q)}
  IN  IF best = {} THEN {NoBundle} ELSE {entries[i].response : i \in best}

\* cache.getCachedResponse: the answers a top-1 lookup may return
getCachedResponse(entries, q, u) ==
  LET cand == {i \in 1..Len(entries) : entries[i].userId = u}
      best == {i \in cand : \A j \in cand :
                 Similarity(entries[i].query, q) >= Similarity(entries[j].query, q)}
      hits == {i \in best : Similarity(entries[i].query, q) >= CACHE_THRESHOLD}
  IN  IF hits = {} THEN {NoBundle} ELSE {entries[i].response : i \in hits}

\* cache.storeQueryResponse
storeQueryResponse(entries, q, response, u) ==
  Append(entries, [query |-> q, userId |-> u, response |-> response])

\* how an awaited call of the cache module ends: it answers; it fails
\* inside, logs and swallows the failure, as the cache contract requires; or
\* the failure leaves the module and the await throws
CacheOutcomes == {"answers", "swallows", "throws"}
\* a call that is not awaited may throw at once, or return a promise that
\* settles in one of the other ways or rejects later
DetachedOutcomes == CacheOutcomes \cup {"rejects"}

\* what a lookup that does not throw resolves with
CachedResponses(entries, q, u, outcome) ==
  IF outcome = "answers" THEN getCachedResponse(entries, q, u) ELSE {NoBundle}

\* what a store leaves in the cache
StoredEntries(entries, q, response, u, outcome) ==
  IF outcome = "answers" THEN storeQueryResponse(entries, q, response, u) ELSE entries

\* the record of a cache call in the call log
CacheCall(op, arg, outcome) ==
  CASE outcome = "answers" -> Call(op, arg)
    [] outcome = "swallows" -> Swallowed(op, arg)
    [] outcome = "throws" -> Failed(op, arg)
    [] outcome = "rejects" -> Unhandled(op, arg)

\* ------------------------------------------------------------------------
\* State
\* ------------------------------------------------------------------------
VARIABLES
  convs,               \* conversation id -> [userId, title]
  messages,            \* the message table, in creation order
  cacheEntries,        \* the semantic cache
  pc,                  \* position of the current askQuestion call
  nreq,                \* askQuestion calls made so far
  question,
  userId,
  conversationId,
  finalConversationId,
  llmReply,            \* the classifier's raw reply, while analyzeQuery holds it
  analysis,
  history,
  jobChunks,
  ragResults,
  ret,                 \* the bundle returned by the call
  calls,               \* collaborator calls of the current request, in order
  startMessages,       \* size of the message table when the call began
  fnArgs,              \* arguments of a function exercised on its own
  fnResult,            \* what that function returned
  webResults,          \* web chunks of the revision that searches the web
  outputs,             \* what the collaborators returned, kept while a run is replayed
  answering,           \* the answer being saved, titled, cached and returned
  pendingCache,        \* cache stores that were started and not awaited
  parked               \* the calls of askQuestion suspended at an await

vars ==
  <<convs, messages, cacheEntries, pc, nreq, question, userId, conversationId,
    finalConversationId, llmReply, analysis, history, jobChunks, ragResults,
    ret, calls, startMessages, fnArgs, fnResult, webResults, outputs,
    answering, pendingCache, parked>>

\* a function exercised on its own: nothing before the call, no result yet
NoArgs == [fn |-> "none"]
NoResult == [fn |-> "none"]
bench == <<fnArgs, fnResult, webResults>>
\* what runs beside the current call
background == <<pendingCache, parked>>

\* no answer has been decided yet
NoAnswer ==
  [conversationId |-> NoConv, text |-> "", savedSource |-> "none", retSource |-> "none",
   cited |-> <<>>, toCache |-> "no"]

\* a second run of askQuestion is replaying the first
Replaying == fnResult.fn = "askQuestion"

\* what the calls of one collaborator returned, in order
ReturnedBy(log, site) ==
  LET got == SelectSeq(log, LAMBDA o : o.site = site)
  IN  [i \in 1..Len(got) |-> got[i].v]

\* a collaborator returns v.  While a run of askQuestion is to be replayed
\* the value is recorded; in the replay the n-th call of a collaborator
\* returns what its n-th call returned in the first run, and a call the first
\* run did not make returns anything.
Returns(site, v) ==
  /\ outputs' = IF fnArgs.fn = "askQuestion"
                  THEN Append(outputs, [site |-> site, v |-> v]) ELSE outputs
  /\ Replaying =>
       LET first == ReturnedBy(fnResult.outputs, site)
           n == Len(ReturnedBy(outputs, site)) + 1
       IN  n <= Len(first) => v = first[n]

stores == <<convs, messages, cacheEntries>>
args == <<question, userId, conversationId, startMessages>>

\* The stores outlive the process.  A run starts on empty stores or on the
\* stores as an earlier run left them after u1 asked Q1 in a new conversation
\* and the resume-only answer was accepted, titled and cached.
SeedCited == RagCited(goodRagChunks(RagChunksOf(<<90, 90>>)))

EmptyStores == [convs |-> <<>>, messages |-> <<>>, cacheEntries |-> <<>>]

AnsweredStores ==
  [convs |-> <<[userId |-> "u1", title |-> generateConversationTitle(Q1)]>>,
   messages |->
     saveMessage(saveMessage(<<>>, 1, "user", Q1, "user", <<>>),
                 1, "assistant", GoodAnswer, "resume", SeedCited),
   cacheEntries |->
     storeQueryResponse(<<>>, Q1, Bundle(1, GoodAnswer, SeedCited, "rag"), "u1")]

InitialStores == {EmptyStores, AnsweredStores}

InitLocals ==
  /\ nreq = 0
  /\ userId = "u1"
  /\ conversationId = NoConv
  /\ finalConversationId = NoConv
  /\ llmReply = NoReply
  /\ analysis = NoAnalysis
  /\ history = <<>>
  /\ jobChunks = <<>>
  /\ ragResults = <<>>
  /\ ret = NoBundle
  /\ calls = <<>>
  /\ fnArgs = NoArgs
  /\ fnResult = NoResult
  /\ webResults = <<>>
  /\ outputs = <<>>
  /\ answering = NoAnswer
  /\ pendingCache = <<>>
  /\ parked = <<>>

\* the locals of a call that has just entered, a second call waiting
InitLocals_Running ==
  /\ nreq = 2
  /\ userId = "u1"
  /\ finalConversationId = NoConv
  /\ llmReply = NoReply
  /\ analysis = NoAnalysis
  /\ history = <<>>
  /\ jobChunks = <<>>
  /\ ragResults = <<>>
  /\ ret = NoBundle
  /\ calls = <<>>
  /\ fnArgs = NoArgs
  /\ fnResult = NoResult
  /\ webResults = <<>>
  /\ outputs = <<>>
  /\ answering = NoAnswer
  /\ pendingCache = <<>>

Init ==
  /\ \E s \in InitialStores :
       /\ convs = s.convs
       /\ messages = s.messages
       /\ cacheEntries = s.cacheEntries
  /\ pc = "idle"
  /\ question = ""
  /\ InitLocals
  /\ startMessages = Len(messages)

\* ------------------------------------------------------------------------
\* askQuestion
\* ------------------------------------------------------------------------
queryToUse == IF FalsyStr(analysis.rewrittenQuery) THEN question ELSE analysis.rewrittenQuery

\* a guardrail that forgets the confidence floor
GuardrailBlocks_IntentOnly(a) == a.intent = "irrelevant"

\* the guardrail test
GuardrailBlocks(a) == a.intent = "irrelevant" \/ JsLess(a.confidence, CONFIDENCE_FLOOR)

\* the answer checks of the four synthesis steps
AcceptJob(a) == a # "" /\ Len(a) > 10
AcceptCombined(a) == a # "" /\ Len(a) > 10
AcceptRag(a) == a # "" /\ Len(a) > 10 /\ ~IncludesDontHaveEnough(a)
AcceptWeb(a) == a # "" /\ Len(a) > 10
Accepts(step, a) ==
  CASE step = "job" -> AcceptJob(a)
    [] step = "combined" -> AcceptCombined(a)
    [] step = "rag" -> AcceptRag(a)
    [] step = "web" -> AcceptWeb(a)

\* a catch block that hands the conversation id back with the apology
Fatal_KeepsConversation(cs) ==
  /\ ret' = Bundle(finalConversationId, ApologyAnswer, <<>>, "error")
  /\ pc' = "done"
  /\ calls' = FailLast(cs)
  /\ UNCHANGED stores

\* the catch block of askQuestion, entered when the last call of cs throws
Fatal(cs) ==
  /\ ret' = FatalBundle
  /\ pc' = "done"
  /\ calls' = FailLast(cs)
  /\ UNCHANGED stores

\* the answer is decided: saveMessage of the assistant turn is issued
Respond(cs, text, savedSource, retSource, cited, toCache) ==
  /\ answering' = [conversationId |-> NoConv, text |-> text, savedSource |-> savedSource,
                   retSource |-> retSource, cited |-> cited, toCache |-> toCache]
  /\ calls' = cs
  /\ pc' = "saveAnswer"
  /\ UNCHANGED <<stores, ret, pendingCache>>

\* saveMessage(finalConversationId, "assistant", answer, source, citedChunks)
SaveAnswer ==
  /\ pc = "saveAnswer"
  /\ LET saved == Append(calls, Call("message.create", "assistant"))
     IN  \/ Fatal(saved)
         \/ /\ messages' = saveMessage(messages, finalConversationId, "assistant",
                                       answering.text, answering.savedSource,
                                       answering.cited)
            /\ calls' = saved
            /\ pc' = "titleFind"
            /\ UNCHANGED <<convs, cacheEntries, ret>>
  /\ UNCHANGED <<bench, background, answering, outputs, nreq, args, finalConversationId,
                 llmReply, analysis, history, jobChunks, ragResults>>
  /\ WithinFailureBudget(calls')

\* what follows updateConversationTitleIfNeeded: the bundle is built; the
\* job step calls the cache store without await and returns the bundle, the
\* other synthesis steps await the store, the fixed answers return at once.
\* A throw of the call that is not awaited is inside the try and reaches the
\* catch block; what the started store does later cannot: askQuestion has
\* returned.  The record of that call says how its promise is going to
\* settle
TitleDone(cs) ==
  LET response == Bundle(finalConversationId, answering.text, answering.cited,
                         answering.retSource)
  IN  CASE answering.toCache = "detached" ->
             \E outcome \in DetachedOutcomes :
               LET stored == Append(cs, CacheCall("cache.store", question, outcome))
               IN  IF outcome = "throws"
                     THEN /\ calls' = stored
                          /\ ret' = FatalBundle
                          /\ pc' = "done"
                          /\ UNCHANGED pendingCache
                     ELSE /\ pendingCache' = Append(pendingCache,
                                 [query |-> question, response |-> response,
                                  userId |-> userId, outcome |-> outcome])
                          /\ calls' = stored
                          /\ ret' = response
                          /\ pc' = "done"
        [] answering.toCache = "awaited" ->
             /\ calls' = cs
             /\ pc' = "cacheStore"
             /\ UNCHANGED <<ret, pendingCache>>
        [] OTHER ->
             /\ calls' = cs
             /\ ret' = response
             /\ pc' = "done"
             /\ UNCHANGED pendingCache

\* updateConversationTitleIfNeeded, the read: prisma.conversation.findUnique,
\* the test of the title, and the catch that swallows a failed read
TitleFind ==
  /\ pc = "titleFind"
  /\ \/ TitleDone(Append(calls, Failed("conversation.findUnique", "title")))
     \/ LET found == Append(calls, Call("conversation.findUnique", "title"))
        IN  IF finalConversationId \in DOMAIN convs
                 /\ IsDefaultTitle(convs[finalConversationId].title)
              THEN /\ calls' = found
                   /\ pc' = "titleUpdate"
                   /\ UNCHANGED <<ret, pendingCache>>
              ELSE TitleDone(found)
  /\ UNCHANGED <<stores, bench, parked, answering, outputs, nreq, args, finalConversationId,
                 llmReply, analysis, history, jobChunks, ragResults>>
  /\ WithinFailureBudget(calls')

\* updateConversationTitleIfNeeded, the write: prisma.conversation.update
\* with the generated title, and the catch that swallows a failed write
TitleUpdate ==
  /\ pc = "titleUpdate"
  /\ \/ /\ TitleDone(Append(calls, Failed("conversation.update", "title")))
        /\ UNCHANGED convs
     \/ /\ TitleDone(Append(calls, Call("conversation.update", "title")))
        /\ convs' = [convs EXCEPT ![finalConversationId].title =
                       generateConversationTitle(question)]
  /\ UNCHANGED <<messages, cacheEntries, bench, parked, answering, outputs, nreq, args,
                 finalConversationId, llmReply, analysis, history, jobChunks, ragResults>>
  /\ WithinFailureBudget(calls')

\* await cache.storeQueryResponse(question, response, userId), then return
\* the bundle; the await is inside the try with no catch of its own, so a
\* store that throws ends in the catch block of askQuestion
CacheStoreAnswer ==
  /\ pc = "cacheStore"
  /\ \E outcome \in CacheOutcomes :
       LET response == Bundle(finalConversationId, answering.text, answering.cited,
                              answering.retSource)
           stored == Append(calls, CacheCall("cache.store", question, outcome))
       IN  IF outcome = "throws"
             THEN Fatal(stored)
             ELSE /\ cacheEntries' = StoredEntries(cacheEntries, question, response, userId,
                                                   outcome)
                  /\ calls' = stored
                  /\ ret' = response
                  /\ pc' = "done"
                  /\ UNCHANGED <<convs, messages>>
  /\ UNCHANGED <<bench, background, answering, outputs, nreq, args,
                 finalConversationId, llmReply, analysis, history, jobChunks, ragResults>>
  /\ WithinFailureBudget(calls')

\* the cache store the job step started without await settles: the entry is
\* stored, or the store fails and nothing is stored.  Its result is dropped;
\* a rejection has no handler and cannot reach the catch block of the call
\* that started it
CompleteCacheStore ==
  /\ pendingCache # <<>>
  /\ LET store == Head(pendingCache)
     IN  cacheEntries' = StoredEntries(cacheEntries, store.query, store.response,
                                       store.userId, store.outcome)
  /\ pendingCache' = Tail(pendingCache)
  /\ UNCHANGED <<convs, messages, bench, parked, answering, outputs, nreq, args,
                 finalConversationId, llmReply, analysis, history, jobChunks, ragResults,
                 pc, ret, calls>>

\* entry: input validation
AskQuestion ==
  /\ pc \in {"idle", "done"}
  /\ nreq < MaxRequests
  /\ \E q \in Questions, u \in Users, c \in {NoConv, GhostId} \cup DOMAIN convs :
       /\ question' = q
       /\ userId' = u
       /\ conversationId' = c
       /\ IF Trim(q) = ""
            THEN ret' = InvalidBundle /\ pc' = "done"
            ELSE ret' = NoBundle /\ pc' = "getConv"
  /\ nreq' = nreq + 1
  /\ calls' = <<>>
  /\ startMessages' = Len(messages)
  /\ finalConversationId' = NoConv
  /\ llmReply' = NoReply
  /\ analysis' = NoAnalysis
  /\ history' = <<>>
  /\ jobChunks' = <<>>
  /\ ragResults' = <<>>
  /\ outputs' = <<>>
  /\ answering' = NoAnswer
  /\ UNCHANGED <<stores, bench, background>>

\* getOrCreateConversation, the lookup: prisma.conversation.findUnique of a
\* conversation id that was supplied
FindConversation ==
  /\ pc = "getConv"
  /\ conversationId # NoConv
  /\ LET lookedUp == Append(calls, Call("conversation.findUnique", "get"))
     IN  \/ /\ Fatal(lookedUp)
            /\ UNCHANGED finalConversationId
         \/ /\ calls' = lookedUp
            /\ IF conversationId \in DOMAIN convs
                 THEN finalConversationId' = conversationId /\ pc' = "saveUser"
                 ELSE pc' = "createConv" /\ UNCHANGED finalConversationId
            /\ UNCHANGED <<stores, ret>>
  /\ UNCHANGED <<bench, background, answering, outputs, nreq, args, llmReply, analysis,
                 history, jobChunks, ragResults>>
  /\ WithinFailureBudget(calls')

\* getOrCreateConversation, the creation: prisma.conversation.create when no
\* id was supplied or the lookup found nothing
CreateConversation ==
  /\ \/ pc = "getConv" /\ conversationId = NoConv
     \/ pc = "createConv"
  /\ LET created == Append(calls, Call("conversation.create", userId))
     IN  \/ /\ Fatal(created)
            /\ UNCHANGED finalConversationId
         \/ /\ convs' = Append(convs, [userId |-> userId, title |-> DefaultTitle])
            /\ finalConversationId' = Len(convs) + 1
            /\ calls' = created
            /\ pc' = "saveUser"
            /\ UNCHANGED <<messages, cacheEntries, ret>>
  /\ UNCHANGED <<bench, background, answering, outputs, nreq, args, llmReply, analysis,
                 history, jobChunks, ragResults>>
  /\ WithinFailureBudget(calls')

\* saveMessage(finalConversationId, "user", question, "user", [])
SaveUserMessage ==
  /\ pc = "saveUser"
  /\ LET saved == Append(calls, Call("message.create", "user"))
     IN  \/ Fatal(saved)
         \/ /\ messages' = saveMessage(messages, finalConversationId, "user",
                                       question, "user", <<>>)
            /\ calls' = saved
            /\ pc' = "analyze"
            /\ UNCHANGED <<convs, cacheEntries, ret>>
  /\ UNCHANGED <<bench, background, answering, outputs, nreq, args, finalConversationId, llmReply, analysis,
                 history, jobChunks, ragResults>>
  /\ WithinFailureBudget(calls')

\* analyzeQuery(question): one call of the completion provider
AnalyzeQuery ==
  /\ pc = "analyze"
  /\ \E reply \in SampleReplies :
       /\ llmReply' = reply
       /\ analysis' = analyzeQuery(question, reply)
       /\ Returns("llm.classify", reply)
  /\ calls' = Append(calls, Call("llm.classify", question))
  /\ pc' = "guardrail"
  /\ UNCHANGED <<stores, bench, background, answering, nreq, args, finalConversationId, history, jobChunks,
                 ragResults, ret>>

\* the guardrail
Guardrail ==
  /\ pc = "guardrail"
  /\ llmReply' = NoReply
  /\ IF GuardrailBlocks(analysis)
       THEN Respond(calls, GuardrailMessage, "error", "error", <<>>, "no")
       ELSE /\ pc' = "cacheLookup"
            /\ UNCHANGED <<stores, ret, calls, answering>>
  /\ UNCHANGED <<bench, background, outputs, nreq, args, finalConversationId, analysis,
                 history, jobChunks, ragResults>>

\* await cache.getCachedResponse(question, userId); the await is inside the
\* try with no catch of its own, so a lookup that throws ends in the catch
\* block of askQuestion; on a hit saveMessage of the cached answer is issued
CacheLookup ==
  /\ pc = "cacheLookup"
  /\ \E outcome \in CacheOutcomes :
       LET looked == Append(calls, CacheCall("cache.get", question, outcome))
       IN  IF outcome = "throws" THEN Fatal(looked) /\ UNCHANGED answering
           ELSE
           \E cachedResponse \in CachedResponses(cacheEntries, question, userId, outcome) :
             /\ calls' = looked
             /\ UNCHANGED <<stores, ret>>
             /\ IF cachedResponse # NoBundle
                  THEN /\ answering' =
                            [conversationId |-> cachedResponse.conversationId,
                             text |-> cachedResponse.answer,
                             savedSource |-> cachedResponse.source,
                             retSource |-> cachedResponse.source,
                             cited |-> cachedResponse.citedChunks, toCache |-> "no"]
                       /\ pc' = "saveCached"
                  ELSE /\ pc' = "history"
                       /\ UNCHANGED answering
  /\ UNCHANGED <<bench, background, outputs, nreq, args, finalConversationId,
                 llmReply, analysis, history, jobChunks, ragResults>>
  /\ WithinFailureBudget(calls')

\* the cache hit: saveMessage of the cached answer, then the cached bundle
\* is returned under the cached conversation id, or the current one when the
\* cached one is empty
SaveCachedAnswer ==
  /\ pc = "saveCached"
  /\ LET saved == Append(calls, Call("message.create", "assistant"))
         responseConversationId ==
           IF answering.conversationId # NoConv
             THEN answering.conversationId ELSE finalConversationId
     IN  \/ Fatal(saved)
         \/ /\ messages' = saveMessage(messages, finalConversationId, "assistant",
                                       answering.text, answering.savedSource,
                                       answering.cited)
            /\ ret' = Bundle(responseConversationId, answering.text, answering.cited,
                             answering.retSource)
            /\ calls' = saved
            /\ pc' = "done"
            /\ UNCHANGED <<convs, cacheEntries>>
  /\ UNCHANGED <<bench, background, answering, outputs, nreq, args, finalConversationId,
                 llmReply, analysis, history, jobChunks, ragResults>>
  /\ WithinFailureBudget(calls')

\* getConversationHistory and filterHistoryByTokens
FetchHistory ==
  /\ pc = "history"
  /\ \E readOk \in BOOLEAN :
       /\ history' =
            filterHistoryByTokens(
              IF readOk
                THEN getConversationHistory(messages, finalConversationId,
                                            MAX_HISTORY_MESSAGES)
                ELSE <<>>,
              MAX_TOKENS_HISTORY)
       /\ calls' = Append(calls, IF readOk THEN Call("message.findMany", "history")
                                 ELSE Failed("message.findMany", "history"))
  /\ pc' = IF analysis.intent = "job_search" THEN "jobSearch" ELSE "ragQuery"
  /\ UNCHANGED <<stores, bench, background, answering, outputs, nreq, args, finalConversationId, llmReply, analysis,
                 jobChunks, ragResults, ret>>
  /\ WithinFailureBudget(calls')

\* a job search whose request failure is not caught and ends the request
JobSearch_Aborts ==
  /\ pc = "jobSearch"
  /\ \E outcome \in {"nokey", "throw", "empty", "data"} :
       \E n \in (IF outcome = "data" THEN 1..MaxJobs ELSE {0}) :
         IF outcome = "throw"
           THEN /\ Fatal(Append(calls, Call("searchWithJSearch", queryToUse)))
                /\ UNCHANGED <<jobChunks, outputs>>
           ELSE /\ jobChunks' = JobChunksOf(n)
                /\ Returns("searchWithJSearch", JobChunksOf(n))
                /\ pc' = IF n > 0 THEN "jobSynth" ELSE "ragQuery"
                /\ calls' = Append(calls, Call("searchWithJSearch", queryToUse))
                /\ UNCHANGED <<stores, ret>>
  /\ UNCHANGED <<bench, background, answering, nreq, args, finalConversationId, llmReply, analysis,
                 history, ragResults>>
  /\ WithinFailureBudget(calls')

\* searchWithJSearch(queryToUse): a missing key, a failed request, a reply
\* that is not OK or holds no posting all give no chunk
JobSearch ==
  /\ pc = "jobSearch"
  /\ \E outcome \in {"nokey", "throw", "empty", "data"} :
       \E n \in (IF outcome = "data" THEN 1..MaxJobs ELSE {0}) :
         /\ jobChunks' = JobChunksOf(n)
         /\ Returns("searchWithJSearch", JobChunksOf(n))
         /\ pc' = IF n > 0 THEN "jobSynth" ELSE "ragQuery"
         /\ calls' = Append(calls, IF outcome = "throw"
                                     THEN Failed("searchWithJSearch", queryToUse)
                                     ELSE Call("searchWithJSearch", queryToUse))
  /\ UNCHANGED <<stores, bench, background, answering, nreq, args, finalConversationId, llmReply, analysis,
                 history, ragResults, ret>>
  /\ WithinFailureBudget(calls')

\* the job step, resume context: queryRAG for the skills of the analysis, or
\* for the query when it names none
JobResumeContext ==
  /\ pc = "jobSynth"
  /\ LET skills == analysis.jobSearch.skills
         joinFails == TruthySkills(skills) /\ skills.t # "array"
         skillsToQuery ==
           IF skills.t = "array" /\ Len(skills.v) > 0
             THEN JoinSpace(skills.v) ELSE queryToUse
         queried == Append(calls, Call("queryRAG", skillsToQuery))
     IN  IF joinFails
           THEN Fatal(Append(calls, Call("skills.join", "")))
         ELSE IF Trim(skillsToQuery) = ""
           THEN Fatal(queried)
         ELSE \/ Fatal(queried)
              \/ /\ calls' = queried
                 /\ pc' = "jobInvoke"
                 /\ UNCHANGED <<stores, ret>>
  /\ UNCHANGED <<bench, background, outputs, answering, nreq, args, finalConversationId,
                 llmReply, analysis, history, jobChunks, ragResults>>
  /\ WithinFailureBudget(calls')

\* the job step, synthesis: jobSearchChain.invoke and the answer check;
\* saveMessage is issued when the answer is accepted
JobSynthesis ==
  /\ pc = "jobInvoke"
  /\ LET invoked == Append(calls, Call("llm.job", queryToUse))
     IN  \/ Fatal(invoked) /\ UNCHANGED <<outputs, answering>>
         \/ \E response \in SynthResponses :
              LET answer == extractAnswer(response)
              IN  /\ Returns("llm.job", response)
                  /\ IF Accepts("job", answer)
                       THEN Respond(invoked, answer, "job", "job", jobChunks,
                                    "detached")
                       ELSE /\ calls' = invoked
                            /\ pc' = "ragQuery"
                            /\ UNCHANGED <<stores, ret, answering>>
  /\ UNCHANGED <<bench, background, nreq, args, finalConversationId, llmReply, analysis, history,
                 jobChunks, ragResults>>
  /\ WithinFailureBudget(calls')

\* a resume retrieval that goes back to the question as it was typed
RagQuery_OriginalQuestion ==
  /\ pc = "ragQuery"
  /\ LET queried == Append(calls, Call("queryRAG", question))
     IN  \/ /\ Fatal(queried)
            /\ UNCHANGED <<ragResults, outputs>>
         \/ /\ \E r \in RagResultSets :
                 /\ ragResults' = Slice(RagChunksOf(r), 2 * TOP_K)
                 /\ Returns("queryRAG", Slice(RagChunksOf(r), 2 * TOP_K))
            /\ calls' = queried
            /\ pc' = "case1"
            /\ UNCHANGED <<stores, ret>>
  /\ UNCHANGED <<bench, background, answering, nreq, args, finalConversationId, llmReply, analysis, history,
                 jobChunks>>
  /\ WithinFailureBudget(calls')

\* queryRAG(queryToUse, topK = 2 * TOP_K)
RagQuery ==
  /\ pc = "ragQuery"
  /\ LET queried == Append(calls, Call("queryRAG", queryToUse))
     IN  \/ /\ Fatal(queried)
            /\ UNCHANGED <<ragResults, outputs>>
         \/ /\ \E r \in RagResultSets :
                 /\ ragResults' = Slice(RagChunksOf(r), 2 * TOP_K)
                 /\ Returns("queryRAG", Slice(RagChunksOf(r), 2 * TOP_K))
            /\ calls' = queried
            /\ pc' = "case1"
            /\ UNCHANGED <<stores, ret>>
  /\ UNCHANGED <<bench, background, answering, nreq, args, finalConversationId, llmReply, analysis, history,
                 jobChunks>>
  /\ WithinFailureBudget(calls')

ragRelevant == isContextRelevant(ragResults)
webRelevant == Len(webChunks) > 0

\* an attempt that is abandoned when the chain is slow to answer: whatever the
\* answer is, the cascade may move on
Attempt_TimeLimited(llmCall, savedSource, retSource, cited, nextPc) ==
  LET invoked == Append(calls, llmCall)
  IN  \/ Fatal(invoked) /\ UNCHANGED <<outputs, answering>>
      \/ \E response \in SynthResponses :
           LET answer == extractAnswer(response)
           IN  /\ Returns(llmCall.op, response)
               /\ \/ /\ Accepts(retSource, answer)
                     /\ Respond(invoked, answer, savedSource, retSource, cited, "awaited")
                  \/ /\ calls' = invoked
                     /\ pc' = nextPc
                     /\ UNCHANGED <<stores, ret, answering>>

\* one synthesis attempt of the cascade: invoke the chain, check the answer,
\* issue saveMessage when it is accepted, fall through otherwise
Attempt(llmCall, savedSource, retSource, cited, nextPc) ==
  LET invoked == Append(calls, llmCall)
  IN  \/ Fatal(invoked) /\ UNCHANGED <<outputs, answering>>
      \/ \E response \in SynthResponses :
           LET answer == extractAnswer(response)
           IN  /\ Returns(llmCall.op, response)
               /\ IF Accepts(retSource, answer)
                    THEN Respond(invoked, answer, savedSource, retSource, cited, "awaited")
                    ELSE /\ calls' = invoked
                         /\ pc' = nextPc
                         /\ UNCHANGED <<stores, ret, answering>>

Skip(nextPc) ==
  /\ pc' = nextPc
  /\ UNCHANGED <<stores, ret, calls, outputs, answering>>

\* Case 1: both resume and web context
Case1Combined ==
  /\ pc = "case1"
  /\ IF ragRelevant /\ webRelevant
       THEN Attempt(Call("llm.combined", queryToUse),
                    "combined", "combined",
                    RagCited(goodRagChunks(ragResults)) \o WebCited(Slice(webChunks, 3)),
                    "case2")
       ELSE Skip("case2")
  /\ UNCHANGED <<bench, background, nreq, args, finalConversationId, llmReply, analysis,
                 history, jobChunks, ragResults>>
  /\ WithinFailureBudget(calls')

\* a resume-only step that is passed over
Case2RagOnly_Skipped ==
  /\ pc = "case2"
  /\ Skip("case3")
  /\ UNCHANGED <<bench, background, nreq, args, finalConversationId, llmReply, analysis,
                 history, jobChunks, ragResults>>
  /\ WithinFailureBudget(calls')

\* Case 2: resume context only
Case2RagOnly ==
  /\ pc = "case2"
  /\ IF ragRelevant /\ ~webRelevant
       THEN Attempt(Call("llm.rag", queryToUse), "resume", "rag",
                    RagCited(goodRagChunks(ragResults)), "case3")
       ELSE Skip("case3")
  /\ UNCHANGED <<bench, background, nreq, args, finalConversationId, llmReply, analysis,
                 history, jobChunks, ragResults>>
  /\ WithinFailureBudget(calls')

\* Case 3: web context only
Case3WebOnly ==
  /\ pc = "case3"
  /\ IF ~ragRelevant /\ webRelevant
       THEN Attempt(Call("llm.rag", question), "web", "web",
                    webChunks, "case4")
       ELSE Skip("case4")
  /\ UNCHANGED <<bench, background, nreq, args, finalConversationId, llmReply, analysis,
                 history, jobChunks, ragResults>>
  /\ WithinFailureBudget(calls')

\* a last step that stores its fixed message in the cache
Case4Insufficient_Cached ==
  /\ pc = "case4"
  /\ Respond(calls, ErrorAnswer, "error", "error", <<>>, "awaited")
  /\ UNCHANGED <<bench, background, outputs, nreq, args, finalConversationId, llmReply,
                 analysis, history, jobChunks, ragResults>>

\* Case 4: no usable context, or every attempt rejected; saveMessage of the
\* fixed answer is issued
Case4Insufficient ==
  /\ pc = "case4"
  /\ Respond(calls, ErrorAnswer, "error", "error", <<>>, "no")
  /\ UNCHANGED <<bench, background, outputs, nreq, args, finalConversationId, llmReply,
                 analysis, history, jobChunks, ragResults>>

\* the steps that save, title, cache and return a decided answer
AnswerStep ==
  \/ SaveAnswer
  \/ TitleFind
  \/ TitleUpdate
  \/ CacheStoreAnswer
  \/ CompleteCacheStore

Next ==
  \/ AskQuestion
  \/ FindConversation
  \/ CreateConversation
  \/ SaveUserMessage
  \/ AnalyzeQuery
  \/ Guardrail
  \/ CacheLookup
  \/ FetchHistory
  \/ JobSearch
  \/ JobResumeContext
  \/ JobSynthesis
  \/ RagQuery
  \/ Case1Combined
  \/ Case2RagOnly
  \/ Case3WebOnly
  \/ Case4Insufficient
  \/ SaveCachedAnswer
  \/ AnswerStep

Spec == Init /\ [][Next]_vars

\* ------------------------------------------------------------------------
\* analyzeQuery alone, on every reply of the completion provider
\* ------------------------------------------------------------------------
InitAnalyze ==
  /\ convs = <<>>
  /\ messages = <<>>
  /\ cacheEntries = <<>>
  /\ pc = "analyzeOnly"
  /\ question \in {Q1, Q2}
  /\ InitLocals
  /\ startMessages = 0

AnalyzeAnyReply ==
  /\ pc = "analyzeOnly"
  /\ \E reply \in AllReplies :
       /\ llmReply' = reply
       /\ analysis' = analyzeQuery(question, reply)
  /\ pc' = "analyzed"
  /\ UNCHANGED <<stores, bench, background, answering, outputs, nreq, args, finalConversationId, history, jobChunks,
                 ragResults, ret, calls>>

NextAnalyze == AnalyzeAnyReply

SpecAnalyze == InitAnalyze /\ [][NextAnalyze]_vars

\* ------------------------------------------------------------------------
\* The revision of askQuestion that searches the web (utils/askQuestion.ts,
\* kept in services/insertVector.service.ts): no classification, no cache,
\* no history; resume and web retrieval are issued together
\* ------------------------------------------------------------------------
\* searchWithSerper: result i (from 0) gets score 1 - i*0.05, at most 10
WebChunksOf(n) ==
  [k \in 1..(IF n < 10 THEN n ELSE 10) |-> Chunk(k, 100 - (k - 1) * 5, "web")]

NoJobOpenings == "No job openings were found."
\* answer.includes("No job openings")
IncludesNoJobOpenings(a) == a = NoJobOpenings
FanResponses == SynthResponses \cup {StringContent(NoJobOpenings)}

FanAccepts(step, a) ==
  CASE step = "combined" -> a # "" /\ Len(a) > 10
    [] step = "rag" -> a # "" /\ Len(a) > 10 /\ ~IncludesDontHaveEnough(a)
    [] step = "web" -> a # "" /\ Len(a) > 10 /\ ~IncludesNoJobOpenings(a)

fanRagRelevant == isContextRelevant(ragResults)
fanWebRelevant == Len(webResults) > 0

\* entry: input validation
FanAskQuestion ==
  /\ pc \in {"idle", "done"}
  /\ nreq < MaxRequests
  /\ \E q \in Questions, u \in Users, c \in {NoConv, GhostId} \cup DOMAIN convs :
       /\ question' = q
       /\ userId' = u
       /\ conversationId' = c
       /\ IF Trim(q) = ""
            THEN ret' = InvalidBundle /\ pc' = "done"
            ELSE ret' = NoBundle /\ pc' = "fanGetConv"
  /\ nreq' = nreq + 1
  /\ calls' = <<>>
  /\ startMessages' = Len(messages)
  /\ finalConversationId' = NoConv
  /\ ragResults' = <<>>
  /\ webResults' = <<>>
  /\ answering' = NoAnswer
  /\ UNCHANGED <<stores, fnArgs, fnResult, outputs, background, llmReply, analysis, history,
                 jobChunks>>

\* getOrCreateConversation, the lookup of a conversation id that was supplied
FanFindConversation ==
  /\ pc = "fanGetConv"
  /\ conversationId # NoConv
  /\ LET lookedUp == Append(calls, Call("conversation.findUnique", "get"))
     IN  \/ /\ Fatal(lookedUp)
            /\ UNCHANGED finalConversationId
         \/ /\ calls' = lookedUp
            /\ IF conversationId \in DOMAIN convs
                 THEN finalConversationId' = conversationId /\ pc' = "fanSaveUser"
                 ELSE pc' = "fanCreateConv" /\ UNCHANGED finalConversationId
            /\ UNCHANGED <<stores, ret>>
  /\ UNCHANGED <<bench, background, answering, outputs, nreq, args, llmReply, analysis,
                 history, jobChunks, ragResults>>
  /\ WithinFailureBudget(calls')

\* getOrCreateConversation, the creation
FanCreateConversation ==
  /\ \/ pc = "fanGetConv" /\ conversationId = NoConv
     \/ pc = "fanCreateConv"
  /\ LET created == Append(calls, Call("conversation.create", userId))
     IN  \/ /\ Fatal(created)
            /\ UNCHANGED finalConversationId
         \/ /\ convs' = Append(convs, [userId |-> userId, title |-> DefaultTitle])
            /\ finalConversationId' = Len(convs) + 1
            /\ calls' = created
            /\ pc' = "fanSaveUser"
            /\ UNCHANGED <<messages, cacheEntries, ret>>
  /\ UNCHANGED <<bench, background, answering, outputs, nreq, args, llmReply, analysis,
                 history, jobChunks, ragResults>>
  /\ WithinFailureBudget(calls')

\* saveMessage(finalConversationId, "user", question, "user", [])
FanSaveUserMessage ==
  /\ pc = "fanSaveUser"
  /\ LET saved == Append(calls, Call("message.create", "user"))
     IN  \/ Fatal(saved)
         \/ /\ messages' = saveMessage(messages, finalConversationId, "user",
                                       question, "user", <<>>)
            /\ calls' = saved
            /\ pc' = "fanRetrieve"
            /\ UNCHANGED <<convs, cacheEntries, ret>>
  /\ UNCHANGED <<bench, background, answering, outputs, nreq, args, finalConversationId, llmReply, analysis,
                 history, jobChunks, ragResults>>
  /\ WithinFailureBudget(calls')

\* Promise.all([queryRAG(question, topK = 2 * TOP_K), searchWithSerper(question)]):
\* both calls are issued; a failed resume retrieval rejects the pair, a failed
\* web search gives no chunk
FanRetrieve ==
  /\ pc = "fanRetrieve"
  /\ \E ragOk \in BOOLEAN, outcome \in {"nokey", "throw", "empty", "data"} :
       \E n \in (IF outcome = "data" THEN 1..MaxWeb ELSE {0}) :
         /\ calls' = calls \o
              <<IF ragOk THEN Call("queryRAG", question) ELSE Failed("queryRAG", question),
                IF outcome = "throw" THEN Failed("searchWithSerper", question)
                ELSE Call("searchWithSerper", question)>>
         /\ IF ragOk
              THEN /\ \E r \in RagResultSets :
                        ragResults' = Slice(RagChunksOf(r), 2 * TOP_K)
                   /\ webResults' = WebChunksOf(n)
                   /\ pc' = "fanCase1"
                   /\ UNCHANGED ret
              ELSE /\ ret' = FatalBundle
                   /\ pc' = "done"
                   /\ UNCHANGED <<ragResults, webResults>>
  /\ UNCHANGED <<stores, fnArgs, fnResult, outputs, background, answering, nreq, args,
                 finalConversationId, llmReply, analysis, history, jobChunks>>
  /\ WithinFailureBudget(calls')

\* one synthesis attempt: invoke the chain, check the answer, issue
\* saveMessage when it is accepted, go on otherwise
FanAttempt(llmCall, savedSource, retSource, cited, nextPc) ==
  LET invoked == Append(calls, llmCall)
  IN  \/ Fatal(invoked) /\ UNCHANGED answering
      \/ \E response \in FanResponses :
           LET answer == extractAnswer(response)
           IN  /\ calls' = invoked
               /\ IF FanAccepts(retSource, answer)
                    THEN /\ answering' =
                              [conversationId |-> NoConv, text |-> answer,
                               savedSource |-> savedSource, retSource |-> retSource,
                               cited |-> cited, toCache |-> "no"]
                         /\ pc' = "fanSaveAnswer"
                    ELSE /\ pc' = nextPc
                         /\ UNCHANGED answering
               /\ UNCHANGED <<stores, ret>>

\* saveMessage of the accepted answer, then the bundle is returned
FanSaveAnswer ==
  /\ pc = "fanSaveAnswer"
  /\ LET saved == Append(calls, Call("message.create", "assistant"))
     IN  \/ Fatal(saved)
         \/ /\ messages' = saveMessage(messages, finalConversationId, "assistant",
                                       answering.text, answering.savedSource,
                                       answering.cited)
            /\ ret' = Bundle(finalConversationId, answering.text, answering.cited,
                             answering.retSource)
            /\ calls' = saved
            /\ pc' = "done"
            /\ UNCHANGED <<convs, cacheEntries>>
  /\ UNCHANGED <<bench, background, answering, outputs, nreq, args, finalConversationId,
                 llmReply, analysis, history, jobChunks, ragResults>>
  /\ WithinFailureBudget(calls')

\* Case 1: both resume and web context
FanCase1Combined ==
  /\ pc = "fanCase1"
  /\ IF fanRagRelevant /\ fanWebRelevant
       THEN FanAttempt(Call("llm.combined", question), "combined", "combined",
                       RagCited(goodRagChunks(ragResults)) \o WebCited(Slice(webResults, 3)),
                       "fanCase2")
       ELSE Skip("fanCase2")
  /\ UNCHANGED <<bench, background, outputs, nreq, args, finalConversationId, llmReply,
                 analysis, history, jobChunks, ragResults>>
  /\ WithinFailureBudget(calls')

\* Case 2: resume context only
FanCase2RagOnly ==
  /\ pc = "fanCase2"
  /\ IF fanRagRelevant /\ ~fanWebRelevant
       THEN FanAttempt(Call("llm.rag", question), "resume", "rag",
                       RagCited(goodRagChunks(ragResults)), "fanCase3")
       ELSE Skip("fanCase3")
  /\ UNCHANGED <<bench, background, outputs, nreq, args, finalConversationId, llmReply,
                 analysis, history, jobChunks, ragResults>>
  /\ WithinFailureBudget(calls')

\* Case 3: web context only
FanCase3WebOnly ==
  /\ pc = "fanCase3"
  /\ IF ~fanRagRelevant /\ fanWebRelevant
       THEN FanAttempt(Call("llm.web", question), "web", "web", webResults, "fanCase4")
       ELSE Skip("fanCase4")
  /\ UNCHANGED <<bench, background, outputs, nreq, args, finalConversationId, llmReply,
                 analysis, history, jobChunks, ragResults>>
  /\ WithinFailureBudget(calls')

\* Case 4: no usable context, or the attempt was rejected
FanCase4Insufficient ==
  /\ pc = "fanCase4"
  /\ LET saved == Append(calls, Call("message.create", "assistant"))
     IN  \/ Fatal(saved)
         \/ /\ messages' = saveMessage(messages, finalConversationId, "assistant",
                                       ErrorAnswer, "error", <<>>)
            /\ ret' = Bundle(finalConversationId, ErrorAnswer, <<>>, "error")
            /\ calls' = saved
            /\ pc' = "done"
            /\ UNCHANGED <<convs, cacheEntries>>
  /\ UNCHANGED <<bench, background, answering, outputs, nreq, args, finalConversationId, llmReply, analysis,
                 history, jobChunks, ragResults>>
  /\ WithinFailureBudget(calls')

NextFanOut ==
  \/ FanAskQuestion
  \/ FanFindConversation
  \/ FanCreateConversation
  \/ FanSaveUserMessage
  \/ FanRetrieve
  \/ FanCase1Combined
  \/ FanCase2RagOnly
  \/ FanCase3WebOnly
  \/ FanCase4Insufficient
  \/ FanSaveAnswer

SpecFanOut == Init /\ [][NextFanOut]_vars

\* one request, served by the current revision of askQuestion or by the one
\* that calls the web search
NextSources ==
  \/ Next
  \/ NextFanOut

SpecSources == Init /\ [][NextSources]_vars

\* ------------------------------------------------------------------------
\* Functions exercised on their own
\* ------------------------------------------------------------------------
\* every variable of the request pipeline at rest
PipelineAtRest ==
  /\ convs = <<>>
  /\ messages = <<>>
  /\ cacheEntries = <<>>
  /\ question = ""
  /\ nreq = 0
  /\ userId = "u1"
  /\ conversationId = NoConv
  /\ finalConversationId = NoConv
  /\ llmReply = NoReply
  /\ analysis = NoAnalysis
  /\ history = <<>>
  /\ jobChunks = <<>>
  /\ ragResults = <<>>
  /\ ret = NoBundle
  /\ calls = <<>>
  /\ startMessages = 0
  /\ webResults = <<>>
  /\ outputs = <<>>
  /\ answering = NoAnswer
  /\ pendingCache = <<>>
  /\ parked = <<>>

pipeline ==
  <<convs, messages, cacheEntries, question, nreq, userId, conversationId,
    finalConversationId, llmReply, analysis, history, jobChunks, ragResults,
    ret, calls, startMessages, webResults, outputs, answering, pendingCache, parked>>

\* ------------------------------------------------------------------------
\* askQuestion on stores that hold a second conversation
\* ------------------------------------------------------------------------
\* the stores after u1's answered question (AnsweredStores) and a later
\* request of u1 that created a conversation and failed to save its user turn
TwoConversationStores ==
  [AnsweredStores EXCEPT
     !.convs = Append(@, [userId |-> "u1", title |-> DefaultTitle])]

InitConversations ==
  /\ convs = TwoConversationStores.convs
  /\ messages = TwoConversationStores.messages
  /\ cacheEntries = TwoConversationStores.cacheEntries
  /\ pc = "idle"
  /\ question = ""
  /\ InitLocals
  /\ startMessages = Len(messages)

SpecConversations == InitConversations /\ [][Next]_vars

\* ------------------------------------------------------------------------
\* askQuestion called twice with the same arguments on the same stores
\* ------------------------------------------------------------------------
\* The first run is free.  When it has returned, its call log, its bundle and
\* what its collaborators returned are kept, the stores are put back as the
\* first run found them, and askQuestion is called again with the same
\* arguments.  In the second run every collaborator gives, on its n-th call,
\* what it gave on its n-th call of the first run; a call the first run did
\* not make is answered freely.
InitReplay ==
  /\ \E s \in InitialStores :
       /\ convs = s.convs
       /\ messages = s.messages
       /\ cacheEntries = s.cacheEntries
       /\ fnArgs = [fn |-> "askQuestion", convs |-> s.convs, messages |-> s.messages,
                    cacheEntries |-> s.cacheEntries]
  /\ pc = "idle"
  /\ question = ""
  /\ nreq = 0
  /\ userId = "u1"
  /\ conversationId = NoConv
  /\ finalConversationId = NoConv
  /\ llmReply = NoReply
  /\ analysis = NoAnalysis
  /\ history = <<>>
  /\ jobChunks = <<>>
  /\ ragResults = <<>>
  /\ ret = NoBundle
  /\ calls = <<>>
  /\ fnResult = NoResult
  /\ webResults = <<>>
  /\ outputs = <<>>
  /\ answering = NoAnswer
  /\ pendingCache = <<>>
  /\ parked = <<>>
  /\ startMessages = Len(messages)

\* the first call, by the user the stored conversation belongs to
FirstRun ==
  /\ nreq = 0
  /\ AskQuestion
  /\ userId' = "u1"

\* the second call: same question, user and conversation id, same stores
AskAgain ==
  /\ pc = "done"
  /\ pendingCache = <<>>
  /\ fnArgs.fn = "askQuestion"
  /\ ~Replaying
  /\ fnResult' = [fn |-> "askQuestion", ret |-> ret, calls |-> calls, outputs |-> outputs]
  /\ convs' = fnArgs.convs
  /\ messages' = fnArgs.messages
  /\ cacheEntries' = fnArgs.cacheEntries
  /\ IF Trim(question) = ""
       THEN ret' = InvalidBundle /\ pc' = "done"
       ELSE ret' = NoBundle /\ pc' = "getConv"
  /\ nreq' = nreq + 1
  /\ calls' = <<>>
  /\ outputs' = <<>>
  /\ answering' = NoAnswer
  /\ startMessages' = Len(fnArgs.messages)
  /\ finalConversationId' = NoConv
  /\ llmReply' = NoReply
  /\ analysis' = NoAnalysis
  /\ history' = <<>>
  /\ jobChunks' = <<>>
  /\ ragResults' = <<>>
  /\ UNCHANGED <<question, userId, conversationId, fnArgs, webResults, background>>

\* how the n-th call of a collaborator ended, for each n
OutcomesOf(cs, op) ==
  LET made == SelectSeq(cs, LAMBDA c : c.op = op)
  IN  [i \in 1..Len(made) |-> <<made[i].ok, made[i].kept>>]

\* how many of the first i entries of a log are of the same collaborator as
\* the i-th
NthCallOf(cs, i) == Cardinality({j \in 1..i : cs[j].op = cs[i].op})

\* the calls made in this step of the second run succeed or fail as the same
\* calls did in the first run
SameOutcomes ==
  Replaying =>
    \A i \in (Len(calls) + 1)..Len(calls') :
         LET first == OutcomesOf(fnResult.calls, calls'[i].op)
             n == NthCallOf(calls', i)
         IN  n <= Len(first) => <<calls'[i].ok, calls'[i].kept>> = first[n]

PipelineStep ==
  \/ FindConversation
  \/ CreateConversation
  \/ SaveUserMessage
  \/ AnalyzeQuery
  \/ Guardrail
  \/ CacheLookup
  \/ FetchHistory
  \/ JobSearch
  \/ JobResumeContext
  \/ JobSynthesis
  \/ RagQuery
  \/ Case1Combined
  \/ Case2RagOnly
  \/ Case3WebOnly
  \/ Case4Insufficient
  \/ SaveCachedAnswer
  \/ AnswerStep

NextReplay ==
  \/ FirstRun
  \/ AskAgain
  \/ PipelineStep /\ SameOutcomes

SpecReplay == InitReplay /\ [][NextReplay]_vars

\* ------------------------------------------------------------------------
\* The semantic cache alone: stores and lookups in any order
\* ------------------------------------------------------------------------
CacheQueries == {Q1, Q1Reworded, Q2}
CacheBundles ==
  {Bundle(1, GoodAnswer, SeedCited, "rag"),
   Bundle(2, "Backend roles at Acme.", JobChunksOf(1), "job")}

InitCache ==
  /\ PipelineAtRest
  /\ pc = "cache"
  /\ fnArgs = NoArgs
  /\ fnResult = NoResult

\* cache.storeQueryResponse(q, b, u)
CacheStore ==
  /\ pc = "cache"
  /\ Len(cacheEntries) < MaxStored
  /\ \E q \in CacheQueries, b \in CacheBundles, u \in Users :
       /\ cacheEntries' = storeQueryResponse(cacheEntries, q, b, u)
       /\ fnArgs' = [fn |-> "storeQueryResponse", query |-> q, userId |-> u]
  /\ fnResult' = NoResult
  /\ UNCHANGED <<convs, messages, pc, question, nreq, userId, conversationId,
                 finalConversationId, llmReply, analysis, history, jobChunks,
                 ragResults, ret, calls, startMessages, webResults, outputs, answering,
                 pendingCache, parked>>

\* cache.getCachedResponse(q, u)
CacheLookupOnly ==
  /\ pc = "cache"
  /\ \E q \in CacheQueries, u \in Users :
       /\ fnArgs' = [fn |-> "getCachedResponse", query |-> q, userId |-> u]
       /\ \E b \in getCachedResponse(cacheEntries, q, u) :
            fnResult' = [fn |-> "getCachedResponse", value |-> b]
  /\ UNCHANGED <<stores, pc, question, nreq, userId, conversationId,
                 finalConversationId, llmReply, analysis, history, jobChunks,
                 ragResults, ret, calls, startMessages, webResults, outputs, answering,
                 pendingCache, parked>>

NextCache ==
  \/ CacheStore
  \/ CacheLookupOnly

SpecCache == InitCache /\ [][NextCache]_vars

\* ------------------------------------------------------------------------
\* isContextRelevant alone, on chunk lists around the minimum score
\* ------------------------------------------------------------------------
GateScores == {0, 9, 10, 90}
GateChunkLists ==
  {[k \in 1..Len(r) |-> Chunk(k, r[k], "none")] :
     r \in UNION {[1..n -> GateScores] : n \in 0..MaxChunks}}

InitRelevance ==
  /\ PipelineAtRest
  /\ pc = "gate"
  /\ \E chunks \in GateChunkLists : fnArgs = [fn |-> "isContextRelevant", chunks |-> chunks]
  /\ fnResult = NoResult

GateRelevance ==
  /\ pc = "gate"
  /\ fnResult' = [fn |-> "isContextRelevant", value |-> isContextRelevant(fnArgs.chunks)]
  /\ pc' = "gated"
  /\ UNCHANGED <<pipeline, fnArgs>>

NextRelevance == GateRelevance

SpecRelevance == InitRelevance /\ [][NextRelevance]_vars

\* ------------------------------------------------------------------------
\* getConversationHistory alone, on message tables of two conversations
\* ------------------------------------------------------------------------
TurnTexts == <<"t1", "t2", "t3", "t4", "t5", "t6", "t7">>
HistoryLimits == {1, 2, MAX_HISTORY_MESSAGES}

\* message tables in creation order; the text of a row tells its position
MessageTables ==
  {[k \in 1..Len(r) |->
      [conversationId |-> r[k].conv, role |-> r[k].role, text |-> TurnTexts[k],
       source |-> r[k].role, citedChunks |-> StoredChunks(<<>>)]] :
     r \in UNION {[1..n -> [conv : {1, 2}, role : {"user", "assistant"}]] :
                    n \in 0..MaxTurns}}

InitHistory ==
  /\ convs = <<>>
  /\ \E t \in MessageTables : messages = t
  /\ cacheEntries = <<>>
  /\ pc = "fetch"
  /\ question = ""
  /\ nreq = 0
  /\ userId = "u1"
  /\ conversationId = NoConv
  /\ finalConversationId = 1
  /\ llmReply = NoReply
  /\ analysis = NoAnalysis
  /\ history = <<>>
  /\ jobChunks = <<>>
  /\ ragResults = <<>>
  /\ ret = NoBundle
  /\ calls = <<>>
  /\ startMessages = Len(messages)
  /\ \E l \in HistoryLimits : fnArgs = [fn |-> "getConversationHistory", limit |-> l]
  /\ fnResult = NoResult
  /\ webResults = <<>>
  /\ outputs = <<>>
  /\ answering = NoAnswer
  /\ pendingCache = <<>>
  /\ parked = <<>>

\* getConversationHistory(finalConversationId, limit); a failed read gives []
FetchOnly ==
  /\ pc = "fetch"
  /\ \E readOk \in BOOLEAN :
       /\ history' =
            IF readOk
              THEN getConversationHistory(messages, finalConversationId, fnArgs.limit)
              ELSE <<>>
       /\ fnResult' = [fn |-> "getConversationHistory", ok |-> readOk]
  /\ pc' = "fetched"
  /\ UNCHANGED <<stores, fnArgs, webResults, outputs, background, answering, nreq, args,
                 finalConversationId, llmReply, analysis, jobChunks, ragResults, ret, calls>>

NextHistory == FetchOnly

SpecHistory == InitHistory /\ [][NextHistory]_vars

\* ------------------------------------------------------------------------
\* filterHistoryByTokens alone, on short histories and small budgets
\* ------------------------------------------------------------------------
WindowTexts == {"", "abcd", "abcde", "abcdefghi"}
WindowBudgets == {0, 1, 3, 5, MAX_TOKENS_HISTORY}
WindowHistories ==
  UNION {[1..n -> [type : {"human", "ai"}, content : WindowTexts]] : n \in 0..MaxWindow}

InitWindow ==
  /\ PipelineAtRest
  /\ pc = "filter"
  /\ \E h \in WindowHistories, b \in WindowBudgets :
       fnArgs = [fn |-> "filterHistoryByTokens", messages |-> h, maxTokens |-> b]
  /\ fnResult = NoResult

FilterOnly ==
  /\ pc = "filter"
  /\ fnResult' = [fn |-> "filterHistoryByTokens",
                  value |-> filterHistoryByTokens(fnArgs.messages, fnArgs.maxTokens)]
  /\ pc' = "filtered"
  /\ UNCHANGED <<pipeline, fnArgs>>

NextWindow == FilterOnly

SpecWindow == InitWindow /\ [][NextWindow]_vars

\* ------------------------------------------------------------------------
\* The cascade from the resume-only step on, after a retrieval of up to
\* MaxRetrieved chunks (more than TOP_K)
\* ------------------------------------------------------------------------
DeepScores == {5, 70, 85, 90}
Repeat(v, n) == [i \in 1..n |-> v]
\* the ranked score lists over DeepScores, best first
DeepResultSets ==
  {Repeat(90, a) \o Repeat(85, b) \o Repeat(70, c) \o Repeat(5, d) :
     <<a, b, c, d>> \in
       {t \in (0..MaxRetrieved) \X (0..MaxRetrieved) \X (0..MaxRetrieved)
               \X (0..MaxRetrieved) : t[1] + t[2] + t[3] + t[4] <= MaxRetrieved}}

\* u1 asked Q1 in a new conversation; the question was classified as a
\* resume query, missed the cache, and the resume index has answered
InitCascade ==
  /\ convs = <<[userId |-> "u1", title |-> DefaultTitle]>>
  /\ messages = saveMessage(<<>>, 1, "user", Q1, "user", <<>>)
  /\ cacheEntries = <<>>
  /\ pc = "case2"
  /\ nreq = 1
  /\ question = Q1
  /\ userId = "u1"
  /\ conversationId = NoConv
  /\ finalConversationId = 1
  /\ llmReply = NoReply
  /\ analysis = [intent |-> "resume_query", confidence |-> Num(90),
                 rewrittenQuery |-> "rq", jobSearch |-> JobUndef]
  /\ history = filterHistoryByTokens(
                 getConversationHistory(messages, 1, MAX_HISTORY_MESSAGES),
                 MAX_TOKENS_HISTORY)
  /\ jobChunks = <<>>
  /\ \E r \in DeepResultSets : ragResults = Slice(RagChunksOf(r), 2 * TOP_K)
  /\ ret = NoBundle
  /\ calls = <<Call("conversation.create", "u1"), Call("message.create", "user"),
               Call("llm.classify", Q1), Call("cache.get", Q1),
               Call("message.findMany", "history"), Call("queryRAG", "rq")>>
  /\ startMessages = 0
  /\ fnArgs = NoArgs
  /\ fnResult = NoResult
  /\ webResults = <<>>
  /\ outputs = <<>>
  /\ answering = NoAnswer
  /\ pendingCache = <<>>
  /\ parked = <<>>

NextCascade ==
  \/ Case2RagOnly
  \/ Case3WebOnly
  \/ Case4Insufficient
  \/ SaveAnswer
  \/ TitleFind
  \/ TitleUpdate
  \/ CacheStoreAnswer

SpecCascade == InitCascade /\ [][NextCascade]_vars

\* ------------------------------------------------------------------------
\* Properties
\* ------------------------------------------------------------------------
Ops(cs) == {cs[i].op : i \in 1..Len(cs)}
NewMessages == SubSeq(messages, startMessages + 1, Len(messages))
NewAssistantTurns == SelectSeq(NewMessages, LAMBDA m : m.role = "assistant")
Classified == analysis # NoAnalysis
LastCallFailed(op) ==
  Len(calls) > 0 /\ calls[Len(calls)].op = op /\ ~calls[Len(calls)].ok
ApologyBundle ==
  [conversationId |-> 0, answer |-> "Sorry, something went wrong. Please try again later.",
   citedChunks |-> <<>>, source |-> "error"]
RefusalText ==
  "I can only help with questions related to your resume, career guidance, or job search. Please ask a relevant question."
SynthesisOps == {"llm.job", "llm.combined", "llm.rag"}
RetrievalOps == {"queryRAG", "searchWithJSearch", "searchWithSerper"}
CacheOps == {"cache.get", "cache.store"}

LowOrIrrelevant(a) ==
  a.intent = "irrelevant" \/ (a.confidence.t = "number" /\ a.confidence.v < 60)

\* C1: a classification with intent irrelevant or confidence below 0.6 makes
\* no retrieval, synthesis or cache call and ends with the fixed refusal,
\* source "error", no cited chunk and one assistant turn tagged "error"
\* (unless persisting that turn fails); any other classification is never
\* answered with the refusal.
C1_GuardrailShortCircuits ==
  /\ (Classified /\ LowOrIrrelevant(analysis)) =>
       /\ Ops(calls) \cap (RetrievalOps \cup SynthesisOps \cup CacheOps) = {}
       /\ pc = "done" =>
            \/ /\ ret = [conversationId |-> finalConversationId, answer |-> RefusalText,
                         citedChunks |-> <<>>, source |-> "error"]
               /\ Len(NewAssistantTurns) = 1
               /\ NewAssistantTurns[1].text = RefusalText
               /\ NewAssistantTurns[1].source = "error"
               /\ NewAssistantTurns[1].conversationId = finalConversationId
            \/ /\ LastCallFailed("message.create")
               /\ ret = ApologyBundle
  /\ (Classified /\ ~LowOrIrrelevant(analysis) /\ pc = "done") =>
       ret.answer # RefusalText

C1_Witness ==
  /\ pc = "done"
  /\ analysis.intent = "resume_query"
  /\ analysis.confidence = Num(30)
  /\ ret.answer = RefusalText
  /\ Len(NewAssistantTurns) = 1

CacheHit ==
  /\ pc = "done"
  /\ Len(calls) >= 2
  /\ calls[Len(calls) - 1].op = "cache.get"
  /\ calls[Len(calls)] = Call("message.create", "assistant")

\* C2: a request answered from the semantic cache has made no call of the
\* completion provider, the classification included, and has appended one
\* assistant turn carrying the cached answer to the current conversation.
C2_CacheHitWithoutCompletion ==
  CacheHit =>
    /\ Ops(calls) \cap (SynthesisOps \cup {"llm.classify"}) = {}
    /\ Len(NewAssistantTurns) = 1
    /\ NewAssistantTurns[1].text = ret.answer
    /\ NewAssistantTurns[1].conversationId = finalConversationId

BundleSources == {"rag", "web", "job", "combined", "error"}
StructuredBundle(b) ==
  /\ DOMAIN b = {"conversationId", "answer", "citedChunks", "source"}
  /\ b.source \in BundleSources
Completed == pc = "done" /\ question \notin {"", "  "}

\* C3, as stated: every completed call on a non-empty question, the fatal
\* path included, has persisted exactly one new assistant turn and returns a
\* structured bundle.
C3_EveryTerminalPersistsOneTurn ==
  Completed => (Len(NewAssistantTurns) = 1 /\ StructuredBundle(ret))

\* C3, amended: every completed call on a non-empty question returns a
\* structured bundle, and has persisted exactly one new assistant turn unless
\* it ended in the fatal-error path.
C3_NonFatalTerminalPersistsOneTurn ==
  Completed =>
    /\ StructuredBundle(ret)
    /\ ret.answer # ApologyBundle.answer => Len(NewAssistantTurns) = 1

C3_Witness ==
  /\ Completed
  /\ ret.source = "rag"
  /\ Len(NewAssistantTurns) = 1
  /\ startMessages > 0

\* the catch block persists nothing: a call that ends with the apology has
\* persisted an assistant turn only when the failing call came after the
\* save, which is the cache store of an accepted answer
C3_ApologyAfterTurnOnlyFromCacheStore ==
  (Completed /\ ret = ApologyBundle) =>
    /\ Len(NewAssistantTurns) <= 1
    /\ Len(NewAssistantTurns) = 1 => LastCallFailed("cache.store")

\* C4: the cache only ever receives bundles accepted by a synthesis step,
\* never an "error" bundle, the guardrail refusal, the insufficient-
\* information message or an answer that echoes a refusal phrase.
C4_CacheHoldsNoRefusal ==
  \A i \in 1..Len(cacheEntries) :
    LET b == cacheEntries[i].response
    IN  /\ b.source \in {"job", "combined", "rag", "web"}
        /\ b.answer \notin {RefusalText, ErrorAnswer}
        /\ b.answer \notin {JobRefusal, RagRefusal}

MandatoryFailure(c) ==
  /\ ~c.ok
  /\ \/ c.op \in {"conversation.create", "message.create", "queryRAG"} \cup SynthesisOps
     \/ c.op = "conversation.findUnique" /\ c.arg = "get"
CacheFailure(c) == ~c.ok /\ c.op \in CacheOps

\* a cache call whose failure left the cache module: an awaited call that
\* threw, the call that is not awaited when it threw at once, or the promise
\* of that call when it rejects
CacheThrew(c) == CacheFailure(c) /\ c.kept = "no"
CacheRejectedUnawaited(c) == CacheFailure(c) /\ c.kept = "unhandled"
CacheSwallowed(c) == CacheFailure(c) /\ c.kept = "swallowed"

C5_RetrievalWitness ==
  /\ pc = "done"
  /\ LastCallFailed("queryRAG")
  /\ finalConversationId # NoConv
  /\ ret = ApologyBundle

\* the promise of the cache store the job step did not await rejects, and
\* the call has returned the job answer
C5_UnawaitedWitness ==
  /\ pc = "done"
  /\ Len(calls) > 0
  /\ CacheRejectedUnawaited(calls[Len(calls)])
  /\ ret.source = "job"

\* the cache lookup threw and the call returned the apology
C5_LookupWitness ==
  /\ pc = "done"
  /\ LastCallFailed("cache.get")
  /\ CacheThrew(calls[Len(calls)])
  /\ ret = ApologyBundle

C6_WebWitness ==
  /\ pc = "done"
  /\ \E i \in 1..Len(calls) : calls[i].op = "searchWithSerper" /\ ~calls[i].ok
  /\ webResults = <<>>
  /\ ret.source = "rag"

\* the cache module swallowed a failed lookup and the request went on to an
\* accepted answer
C6_SwallowedWitness ==
  /\ pc = "done"
  /\ \E i \in 1..Len(calls) : calls[i].op = "cache.get" /\ CacheSwallowed(calls[i])
  /\ ret.source \in {"job", "rag"}

\* C7: a call with an empty or whitespace-only question returns at once the
\* error bundle with an empty conversation id and touches nothing: no store
\* changes and no collaborator is called.
C7_BlankQuestionHasNoEffect ==
  [][(pc \in {"idle", "done"} /\ nreq' = nreq + 1 /\ question' \in {"", "  "}) =>
       /\ pc' = "done"
       /\ ret' = [conversationId |-> 0, answer |-> "Please provide a valid question.",
                  citedChunks |-> <<>>, source |-> "error"]
       /\ calls' = <<>>
       /\ UNCHANGED stores]_vars

C7_Witness ==
  /\ pc = "done"
  /\ question = "  "
  /\ ret.answer = "Please provide a valid question."
  /\ calls = <<>>
  /\ messages # <<>>

Unparseable(r) == r.kind \in {"throw", "garbage"} \/ r.fence = "lang"
\* a step of the call itself, not of a cache store left behind by an earlier
\* call
OwnStep == pc' # pc
\* the refusal is being saved and titled
Refusing ==
  /\ answering.text = RefusalText
  /\ answering.savedSource = "error"
  /\ pc \in {"saveAnswer", "titleFind", "titleUpdate"}

\* C8: when the completion provider fails or its reply is not parseable
\* JSON, analyzeQuery returns irrelevant, confidence 0 and the original
\* question, and askQuestion answers with the guardrail refusal (the fatal
\* path is taken only if persisting that refusal fails).
C8_AnalyzeFailureIsSafeDefault ==
  [][/\ (pc = "guardrail" /\ OwnStep /\ Unparseable(llmReply)) =>
          /\ analysis = [intent |-> "irrelevant", confidence |-> Num(0),
                         rewrittenQuery |-> question, jobSearch |-> JobUndef]
          /\ pc' = "saveAnswer"
          /\ answering'.text = RefusalText
          /\ answering'.savedSource = "error"
     /\ (Refusing /\ OwnStep) =>
          /\ answering' = answering
          /\ pc' \in {"titleFind", "titleUpdate", "done"}
          /\ pc' = "done" =>
               \/ ret'.answer = RefusalText
               \/ /\ ret' = ApologyBundle
                  /\ pc = "saveAnswer"
                  /\ calls'[Len(calls')] = Failed("message.create", "assistant")]_vars

C8_Witness ==
  /\ pc = "guardrail"
  /\ llmReply.kind = "throw"
  /\ analysis.intent = "irrelevant"
  /\ analysis.rewrittenQuery = question

ParsedObject(r) == r.kind = "object" /\ r.fence \in {"none", "json", "bare"}

\* C9: every analysis returned by analyzeQuery has a numeric confidence
\* within [0,1], and a parsed reply with an intent outside the four allowed
\* values comes back as irrelevant with confidence 0.
C9_ConfidenceWithinUnitInterval ==
  pc = "analyzed" =>
    /\ analysis.confidence.t = "number"
    /\ analysis.confidence.v >= 0
    /\ analysis.confidence.v <= 100
    /\ (ParsedObject(llmReply) /\ llmReply.obj.intent \notin ValidIntents) =>
         (analysis.intent = "irrelevant" /\ analysis.confidence = Num(0))

\* C10: in every analysis returned by analyzeQuery the job parameters are
\* present exactly when the intent is job_search, and when present they hold
\* a skills list.
C10_JobParametersIffJobSearch ==
  pc = "analyzed" =>
    /\ (analysis.jobSearch.t = "object") <=> (analysis.intent = "job_search")
    /\ analysis.jobSearch.t = "object" => analysis.jobSearch.skills.t = "array"

AtOrAboveMinimum(chunks) == {i \in 1..Len(chunks) : chunks[i].score >= 10}

\* C11: isContextRelevant(chunks) is true exactly when at least two chunks
\* score at or above the minimum 0.1: false on no chunk and on a single such
\* chunk, true on two or more however many further chunks score below it.
C11_RelevantIffTwoAtMinimum ==
  pc = "gated" =>
    (fnResult.value <=> Cardinality(AtOrAboveMinimum(fnArgs.chunks)) >= 2)

C11_Witness ==
  /\ pc = "gated"
  /\ fnResult.value = TRUE
  /\ Len(fnArgs.chunks) = 4
  /\ Cardinality(AtOrAboveMinimum(fnArgs.chunks)) = 2
  /\ \E i \in 1..4 : fnArgs.chunks[i].score = 10

StoredTurns == {i \in 1..Len(messages) : messages[i].conversationId = finalConversationId}
Smaller(a, b) == IF a < b THEN a ELSE b
\* the stored turn that has exactly n newer turns in its conversation
TurnWithNewer(n) ==
  CHOOSE i \in StoredTurns : Cardinality({j \in StoredTurns : j > i}) = n

\* C12: a successful getConversationHistory(conversationId, limit) on a
\* conversation of N stored turns returns the limit most recent turns when
\* N > limit and all N turns otherwise, oldest first.
C12_HistoryIsNewestLimitOldestFirst ==
  (pc = "fetched" /\ fnResult.ok) =>
    /\ Len(history) = Smaller(Cardinality(StoredTurns), fnArgs.limit)
    /\ \A k \in 1..Len(history) :
         history[k].content = messages[TurnWithNewer(Len(history) - k)].text

C12_Witness ==
  /\ pc = "fetched"
  /\ fnResult.ok
  /\ Cardinality(StoredTurns) = 3
  /\ Len(messages) = 5
  /\ messages[5].conversationId = 2
  /\ fnArgs.limit = 2
  /\ Len(history) = 2
  /\ history[1].content # history[2].content

RECURSIVE CostOf(_)
CostOf(turns) ==
  IF turns = <<>> THEN 0
  ELSE (Len(Head(turns).content) + 3) \div 4 + CostOf(Tail(turns))
Suffix(turns, k) == SubSeq(turns, k + 1, Len(turns))

\* C13: filterHistoryByTokens(turns, maxTokens) returns the longest suffix of
\* the chronological input whose summed cost, ceil(length/4) per turn, is at
\* most maxTokens, in the input's order; it is empty when the newest turn
\* alone costs more than the budget.
C13_FilterKeepsLongestSuffixInBudget ==
  pc = "filtered" =>
    \E k \in 0..Len(fnArgs.messages) :
      /\ fnResult.value = Suffix(fnArgs.messages, k)
      /\ CostOf(fnResult.value) <= fnArgs.maxTokens
      /\ k > 0 => CostOf(Suffix(fnArgs.messages, k - 1)) > fnArgs.maxTokens

C13_Witness ==
  /\ pc = "filtered"
  /\ Len(fnArgs.messages) = 4
  /\ fnArgs.maxTokens = 3
  /\ Len(fnResult.value) = 2
  /\ CostOf(fnResult.value) = 3
  /\ fnResult.value[1].content # fnResult.value[2].content

\* the job step that starts at call i ended without an accepted answer: the
\* provider gave no posting, or the synthesis at call j answered and the
\* answer was not persisted
NoPostings(i) == calls[i].op = "searchWithJSearch" /\ jobChunks = <<>>
RejectedJobAnswer(i, j) ==
  /\ calls[i].op = "searchWithJSearch"
  /\ j > i
  /\ calls[j].op = "llm.job"
  /\ calls[j].ok
  /\ IF j = Len(calls) THEN pc # "saveAnswer"
     ELSE calls[j + 1].op # "message.create"
ContinuesWithResumeCascade(i, last) ==
  /\ ret.source # "job"
  /\ IF last = Len(calls) THEN pc = "ragQuery"
     ELSE /\ calls[last + 1].op = "queryRAG"
          /\ calls[last + 1].arg = calls[i].arg
          /\ calls[last + 1].ok =>
               pc \in {"case1", "case2", "case3", "case4", "saveAnswer", "titleFind",
                       "titleUpdate", "cacheStore", "done"}
          /\ pc = "done" => ret.source \in {"combined", "rag", "web", "error"}

\* C14: for a job_search classification past the guardrail, when the job
\* provider returns no posting or fails, or the job synthesis answer is
\* rejected, the call does not return source "job": its next step is the
\* resume retrieval with the very query that was sent to the job provider,
\* followed by the combined/rag/web cascade.
C14_JobFallsThroughWithSameQuery ==
  \A i \in 1..Len(calls) :
    /\ NoPostings(i) => ContinuesWithResumeCascade(i, i)
    /\ \A j \in 1..Len(calls) :
         RejectedJobAnswer(i, j) => ContinuesWithResumeCascade(i, j)

C14_Witness ==
  /\ pc = "done"
  /\ analysis.intent = "job_search"
  /\ question = "Find me backend jobs"
  /\ \E i \in 1..(Len(calls) - 3) :
       /\ calls[i] = Call("searchWithJSearch", "rq")
       /\ RejectedJobAnswer(i, i + 2)
       /\ calls[i + 3] = Call("queryRAG", "rq")
  /\ ret.source = "rag"

C14_EmptyWitness ==
  /\ pc = "done"
  /\ \E i \in 1..(Len(calls) - 1) :
       /\ NoPostings(i)
       /\ calls[i].ok
       /\ calls[i + 1] = Call("queryRAG", "rq")
  /\ ret.source = "error"

ScoredAtLeastMinimum(results) == SelectSeq(results, LAMBDA c : c.score >= 10)
\* the resume-only step accepted its answer and saved it: the one step that
\* saves a turn tagged "resume"
ResumeOnlyAccepted ==
  /\ Len(NewAssistantTurns) = 1
  /\ NewAssistantTurns[1].source = "resume"
\* C15: when the resume-only step is reached and its answer accepted, the
\* call returns source "rag" and cites exactly the retrieved chunks scoring
\* at least 0.1, in retrieval order, the first 10 of them at most, each
\* tagged "rag".
C15_RagCitesFirstTenAboveMinimum ==
  (pc = "done" /\ ResumeOnlyAccepted /\ ret # ApologyBundle) =>
    LET good == ScoredAtLeastMinimum(ragResults)
    IN  /\ ret.source = "rag"
        /\ Len(ret.citedChunks) = Smaller(Len(good), 10)
        /\ \A k \in 1..Len(ret.citedChunks) :
             ret.citedChunks[k] =
               [id |-> good[k].id, score |-> good[k].score, source |-> "rag"]

C15_Witness ==
  /\ pc = "done"
  /\ calls[Len(calls) - 1].op = "conversation.update"
  /\ calls[Len(calls)] = Call("cache.store", "What is my name?")
  /\ Len(ScoredAtLeastMinimum(ragResults)) = 11
  /\ Len(ragResults) = 12
  /\ Len(ret.citedChunks) = 10
  /\ ret.source = "rag"

C15_ScenarioA ==
  /\ pc = "done"
  /\ question = "What is my name?"
  /\ [k \in 1..Len(ragResults) |-> ragResults[k].score] = <<90, 85, 70>>
  /\ ret.source = "rag"
  /\ Len(ret.citedChunks) = 3

InsufficientText ==
  "I don't have enough information to answer this question. Please try a different question or provide more context."
\* the insufficient-information message is being saved and titled
Exhausting ==
  /\ answering.text = InsufficientText
  /\ answering.savedSource = "error"
  /\ pc \in {"saveAnswer", "titleFind", "titleUpdate"}

\* C16: when no strategy is accepted (no relevant resume or web context, or
\* every attempted synthesis rejected) the call returns the fixed
\* insufficient-information message with source "error", no cited chunk and
\* the conversation's real id, persists that message as one assistant turn
\* tagged "error", stores nothing in the cache, and takes the fatal path only
\* if persisting that turn fails.
C16_ExhaustionIsContentOutcome ==
  [][/\ (pc = "case4" /\ OwnStep) =>
          /\ pc' = "saveAnswer"
          /\ answering'.text = InsufficientText
          /\ answering'.savedSource = "error"
          /\ UNCHANGED <<stores, calls>>
     /\ (Exhausting /\ OwnStep) =>
          /\ answering' = answering
          /\ cacheEntries' = cacheEntries
          /\ pendingCache' = pendingCache
          /\ "cache.store" \notin Ops(calls')
          /\ pc' \in {"titleFind", "titleUpdate", "done"}
          /\ pc = "saveAnswer" =>
               \/ /\ pc' = "titleFind"
                  /\ finalConversationId \in DOMAIN convs
                  /\ messages' = Append(messages,
                        [conversationId |-> finalConversationId, role |-> "assistant",
                         text |-> InsufficientText, source |-> "error",
                         citedChunks |-> [null |-> TRUE, chunks |-> <<>>]])
               \/ /\ pc' = "done"
                  /\ calls'[Len(calls')] = Failed("message.create", "assistant")
                  /\ ret' = ApologyBundle
          /\ pc # "saveAnswer" =>
               /\ messages' = messages
               /\ pc' = "done" =>
                    ret' = [conversationId |-> finalConversationId,
                            answer |-> InsufficientText,
                            citedChunks |-> <<>>, source |-> "error"]]_vars

C16_Witness ==
  /\ pc = "done"
  /\ ret.answer = InsufficientText
  /\ ret.conversationId = finalConversationId
  /\ finalConversationId # NoConv
  /\ \E i \in 1..Len(calls) : calls[i] = Call("llm.rag", "rq")
  /\ Len(NewAssistantTurns) = 1
  /\ NewAssistantTurns[1].text = InsufficientText

C16_NoContextWitness ==
  /\ pc = "done"
  /\ ret.answer = InsufficientText
  /\ ragResults = <<>>
  /\ Ops(calls) \cap SynthesisOps = {}

SuppliedExisting == conversationId \in DOMAIN convs

\* C17: two runs of askQuestion on the same question, user, conversation id
\* and stores, in which every collaborator (classifier, cache, job search,
\* resume retrieval, synthesis chains, database) returns on each call what it
\* returned in the other run, end with the same source tag and make the same
\* sequence of collaborator calls.
C17_ReplayRoutesTheSame ==
  (Replaying /\ pc = "done") =>
    /\ ret.source = fnResult.ret.source
    /\ calls = fnResult.calls

\* both runs fell through a rejected job answer to an accepted resume answer
C17_Witness ==
  /\ Replaying
  /\ pc = "done"
  /\ ret.source = "rag"
  /\ Len(outputs) = 5
  /\ \E i \in 1..Len(calls) : calls[i].op = "llm.job"

\* C18: every call made with the id of an existing conversation that does
\* not end in the fatal path returns that very id, and its user and
\* assistant turns were appended to that conversation, cache hits included.
C18_ReturnedConversationIsSupplied ==
  (Completed /\ SuppliedExisting /\ ret # ApologyBundle) =>
    /\ ret.conversationId = conversationId
    /\ \A k \in 1..Len(NewMessages) : NewMessages[k].conversationId = conversationId

\* the same, cache hits left aside
C18_ExceptOnCacheHit ==
  (Completed /\ SuppliedExisting /\ ret # ApologyBundle /\ ~CacheHit) =>
    /\ ret.conversationId = conversationId
    /\ \A k \in 1..Len(NewMessages) : NewMessages[k].conversationId = conversationId

\* the turns of a cache hit do go to the supplied conversation
C18_TurnsGoToSupplied ==
  (Completed /\ SuppliedExisting /\ ret # ApologyBundle) =>
    /\ Len(NewMessages) = 2
    /\ \A k \in 1..Len(NewMessages) : NewMessages[k].conversationId = conversationId

LookedUp == fnResult.fn = "getCachedResponse"
OwnEntries == {i \in 1..Len(cacheEntries) : cacheEntries[i].userId = fnArgs.userId}
SimilarityTo(i) == Similarity(cacheEntries[i].query, fnArgs.query)

\* C19, as stated: once a bundle is stored for a query Q, a lookup by the same
\* user for a query within the threshold 0.85 of Q returns that bundle, also
\* when bundles for other queries were stored in between, and a lookup with no
\* entry within the threshold returns none.
C19_LookupReturnsBundleInThreshold ==
  LookedUp =>
    /\ \A i \in OwnEntries :
         (/\ SimilarityTo(i) >= 85
          /\ \A j \in OwnEntries \ {i} : cacheEntries[j].query # cacheEntries[i].query)
           => fnResult.value = cacheEntries[i].response
    /\ (\A i \in OwnEntries : SimilarityTo(i) < 85) => fnResult.value = NoBundle

\* C19, amended: a lookup returns, unchanged, the bundle of an entry of the
\* user that is nearest to the looked-up query when that entry is within the
\* threshold (so the bundle stored for Q comes back for Q' whenever no other
\* entry of the user is as near to Q'), and none when the nearest entry is
\* below the threshold.
C19_LookupReturnsNearestInThreshold ==
  LookedUp =>
    /\ (\E i \in OwnEntries : SimilarityTo(i) >= 85) =>
         \E i \in OwnEntries :
           /\ fnResult.value = cacheEntries[i].response
           /\ SimilarityTo(i) >= 85
           /\ \A j \in OwnEntries : SimilarityTo(j) <= SimilarityTo(i)
    /\ \A i \in OwnEntries :
         (SimilarityTo(i) >= 85 /\ \A j \in OwnEntries \ {i} : SimilarityTo(j) < SimilarityTo(i))
           => fnResult.value = cacheEntries[i].response
    /\ (\A i \in OwnEntries : SimilarityTo(i) < 85) => fnResult.value = NoBundle

C19_Witness ==
  /\ LookedUp
  /\ Len(cacheEntries) = 3
  /\ fnArgs.query = Q1Reworded
  /\ fnArgs.userId = "u1"
  /\ cacheEntries[1].query = "What is my name?"
  /\ cacheEntries[1].userId = "u1"
  /\ cacheEntries[2].query = "Find me backend jobs"
  /\ cacheEntries[2].userId = "u1"
  /\ cacheEntries[3].userId = "u2"
  /\ cacheEntries[2].response # cacheEntries[1].response
  /\ fnResult.value = cacheEntries[1].response

\* attempts of the cascade as the call log shows them: the web-only step
\* invokes its own chain, or the resume-only chain on the question as typed
AttemptedAfter(j, op) == \E k \in (j + 1)..Len(calls) : calls[k].op = op
ResumeOnlyAttempt(j) == calls[j].op = "llm.rag" /\ calls[j].arg = queryToUse
WebOnlyAttemptAfter(j) ==
  \E k \in (j + 1)..Len(calls) :
    \/ calls[k].op = "llm.web"
    \/ calls[k].op = "llm.rag" /\ calls[k].arg = question /\ question # queryToUse
ResumeUsable == isContextRelevant(ragResults)
WebUsable == Len(webChunks) > 0 \/ Len(webResults) > 0
Exhausted ==
  /\ pc = "done"
  /\ ret.answer = InsufficientText
  /\ Len(NewAssistantTurns) = 1

\* C20: the cascade is ordered and falls through: when the call ends with
\* the insufficient-information bundle, every synthesis step that was
\* attempted (and so rejected) was followed by an attempt of each later
\* strategy, in the order job, combined, resume-only, web-only, whose source
\* had usable context; a rejected combined answer by a resume-only attempt,
\* a rejected resume-only answer by a web-only attempt when web results exist.
C20_RejectionFallsThroughInOrder ==
  Exhausted =>
    \A j \in 1..Len(calls) :
      /\ calls[j].op = "llm.job" =>
           /\ (ResumeUsable /\ WebUsable) => AttemptedAfter(j, "llm.combined")
           /\ ResumeUsable => AttemptedAfter(j, "llm.rag")
           /\ WebUsable => WebOnlyAttemptAfter(j)
      /\ calls[j].op = "llm.combined" =>
           /\ ResumeUsable => AttemptedAfter(j, "llm.rag")
           /\ WebUsable => WebOnlyAttemptAfter(j)
      /\ ResumeOnlyAttempt(j) =>
           (WebUsable => WebOnlyAttemptAfter(j))

\* the part of C20 that concerns the job step
C20_JobRejectionFallsThrough ==
  Exhausted =>
    \A j \in 1..Len(calls) :
      (calls[j].op = "llm.job" /\ ResumeUsable) => AttemptedAfter(j, "llm.rag")

C20_Witness ==
  /\ Exhausted
  /\ ResumeUsable
  /\ \E j \in 1..Len(calls) :
       /\ calls[j] = Call("llm.job", "rq")
       /\ \E k \in (j + 1)..Len(calls) : calls[k] = Call("llm.rag", "rq")

\* a refusal phrase the synthesis prompts tell the model to use
EchoesRefusal(a) == IncludesDontHaveEnough(a) \/ a = JobRefusal

\* C21: no bundle with source job, combined, rag or web carries an answer of
\* ten characters or fewer or one that echoes a refusal phrase ("don't have
\* enough", "No matching job ...").
C21_NoStepAnswersWithRefusal ==
  (pc = "done" /\ ret.source \in {"job", "combined", "rag", "web"}) =>
    (Len(ret.answer) > 10 /\ ~EchoesRefusal(ret.answer))

\* what the four checks do share: the answer is longer than ten characters,
\* and a resume-only answer does not say "don't have enough"
C21_StepAnswersAreLong ==
  (pc = "done" /\ ret.source \in {"job", "combined", "rag", "web"}) =>
    (Len(ret.answer) > 10 /\ (ret.source = "rag" => ~IncludesDontHaveEnough(ret.answer)))

\* ------------------------------------------------------------------------
\* askQuestion while the web search provider has results for the question
\* ------------------------------------------------------------------------
\* webResults holds what searchWithSerper would return if it were called
InitWebAvailable ==
  /\ \E s \in InitialStores :
       /\ convs = s.convs
       /\ messages = s.messages
       /\ cacheEntries = s.cacheEntries
  /\ \E n \in 0..MaxWeb : webResults = WebChunksOf(n)
  /\ pc = "idle"
  /\ question = ""
  /\ nreq = 0
  /\ userId = "u1"
  /\ conversationId = NoConv
  /\ finalConversationId = NoConv
  /\ llmReply = NoReply
  /\ analysis = NoAnalysis
  /\ history = <<>>
  /\ jobChunks = <<>>
  /\ ragResults = <<>>
  /\ ret = NoBundle
  /\ calls = <<>>
  /\ fnArgs = NoArgs
  /\ fnResult = NoResult
  /\ outputs = <<>>
  /\ answering = NoAnswer
  /\ pendingCache = <<>>
  /\ parked = <<>>
  /\ startMessages = Len(messages)

SpecWebAvailable == InitWebAvailable /\ [][Next]_vars

\* the web results form a relevant set: two of them at or above the minimum
WebSetRelevant == Cardinality(AtOrAboveMinimum(webResults)) >= 2

\* this step invokes the chain named op
Invokes(op) == Len(calls') > Len(calls) /\ calls'[Len(calls) + 1].op = op

\* C22: with a relevant set of web results and no relevant resume set the
\* web-only synthesis is attempted (and its accepted answer returned with
\* source "web"); with both sets relevant the combined synthesis is attempted.
C22_WebContextIsUsed ==
  [][/\ (pc = "case3" /\ ~ragRelevant /\ WebSetRelevant) => Invokes("llm.rag")
     /\ (pc = "case1" /\ ragRelevant /\ WebSetRelevant) => Invokes("llm.combined")]_vars

\* the relevance gate has been evaluated
Gated == pc \in {"case1", "case2", "case3", "case4", "fanCase1", "fanCase2", "fanCase3", "fanCase4"}
Issued(op) == \E i \in 1..Len(calls) : calls[i].op = op

\* C23: when the relevance gate is evaluated both the resume retrieval and the
\* web retrieval of this question have been issued and have completed.
C23_BothRetrievalsJoinedBeforeGate ==
  Gated => (Issued("queryRAG") /\ Issued("searchWithSerper"))

\* the resume retrieval alone is complete before the gate
C23_ResumeRetrievedBeforeGate ==
  Gated => \E i \in 1..Len(calls) : calls[i] = Call("queryRAG", queryToUse)

\* the turns stored before the current call of askQuestion began
PriorTurns == SubSeq(messages, 1, startMessages)

\* the window over the turns of the conversation stored before the call
PriorWindow ==
  filterHistoryByTokens(
    getConversationHistory(PriorTurns, finalConversationId, MAX_HISTORY_MESSAGES),
    MAX_TOKENS_HISTORY)

Synthesising == \E i \in 1..Len(calls) : calls[i].op \in {"llm.job", "llm.combined", "llm.rag"}

\* C24: the history handed to a synthesis call holds only turns stored before
\* the current question arrived, windowed by count and token budget; the
\* current question's own user turn is not in it.
C24_HistoryIsPriorTurns ==
  Synthesising => history \in {<<>>, PriorWindow}

\* what the history is: the window over the turns stored before the answer
\* is, the current question's user turn included
C24_HistoryIsWindowOfStoredTurns ==
  (Synthesising /\ NewAssistantTurns = <<>>) =>
    history \in {<<>>,
                 filterHistoryByTokens(
                   getConversationHistory(messages, finalConversationId,
                                          MAX_HISTORY_MESSAGES),
                   MAX_TOKENS_HISTORY)}

\* ------------------------------------------------------------------------
\* A sequence of questions asked by u1 in one conversation
\* ------------------------------------------------------------------------
MaxAsked == 2
TitleQuestions == {Q1, QChat}

\* askQuestion by u1: the first call creates the conversation, the later
\* calls supply its id
AskInConversation ==
  /\ pc \in {"idle", "done"}
  /\ nreq < MaxAsked
  /\ \E q \in TitleQuestions :
       /\ question' = q
       /\ IF Trim(q) = ""
            THEN ret' = InvalidBundle /\ pc' = "done"
            ELSE ret' = NoBundle /\ pc' = "getConv"
  /\ userId' = "u1"
  /\ conversationId' = IF Len(convs) = 0 THEN NoConv ELSE 1
  /\ nreq' = nreq + 1
  /\ calls' = <<>>
  /\ startMessages' = Len(messages)
  /\ finalConversationId' = NoConv
  /\ llmReply' = NoReply
  /\ analysis' = NoAnalysis
  /\ history' = <<>>
  /\ jobChunks' = <<>>
  /\ ragResults' = <<>>
  /\ outputs' = <<>>
  /\ answering' = NoAnswer
  /\ UNCHANGED <<stores, bench, background>>

InitTitles ==
  /\ convs = <<>>
  /\ messages = <<>>
  /\ cacheEntries = <<>>
  /\ pc = "idle"
  /\ question = ""
  /\ InitLocals
  /\ startMessages = 0

NextTitles ==
  \/ AskInConversation
  \/ PipelineStep

SpecTitles == InitTitles /\ [][NextTitles]_vars

TitleOf(cv, c) == cv[c].title
TitleChanges(c) == c \in DOMAIN convs /\ TitleOf(convs', c) # TitleOf(convs, c)
TitleUpdateFailed(cs) ==
  \E i \in 1..Len(cs) :
    cs[i] \in {Failed("conversation.findUnique", "title"),
               Failed("conversation.update", "title")}

\* C25: the title of a conversation changes at most once (only from the title
\* it was created with) and only while it has the default "Chat - ..." form;
\* stored turns are never modified; a failed title update leaves the returned
\* bundle as it is without the failure.
C25_TitleChangesOnce ==
  [][/\ \A c \in DOMAIN convs :
          TitleChanges(c) =>
            (TitleOf(convs, c) = DefaultTitle /\ IsDefaultTitle(TitleOf(convs, c)))
     /\ SubSeq(messages', 1, Len(messages)) = messages
     /\ (pc # "done" /\ pc' = "done" /\ TitleUpdateFailed(calls')) =>
          (ret' # FatalBundle /\ ret'.conversationId = finalConversationId
           /\ ret'.answer = messages'[Len(messages')].text)]_vars

\* the same without "at most once": the title changes only while it has the
\* default form
C25_TitleChangesOnlyFromDefaultForm ==
  [][/\ \A c \in DOMAIN convs : TitleChanges(c) => IsDefaultTitle(TitleOf(convs, c))
     /\ SubSeq(messages', 1, Len(messages)) = messages
     /\ (pc # "done" /\ pc' = "done" /\ TitleUpdateFailed(calls')) =>
          (ret' # FatalBundle /\ ret'.conversationId = finalConversationId
           /\ ret'.answer = messages'[Len(messages')].text)]_vars

\* the assistant turn this call stored
StoredAnswer == NewAssistantTurns[Len(NewAssistantTurns)]

\* C26: when a call of askQuestion that stored an assistant turn returns, the
\* source tag stored with the turn is the source tag of the returned bundle
\* and the stored cited chunks are the returned cited chunks (no stored chunk
\* list standing for an empty one).
C26_StoredTurnMatchesBundle ==
  (pc = "done" /\ Len(NewAssistantTurns) > 0) =>
    /\ StoredAnswer.source = ret.source
    /\ StoredAnswer.citedChunks.chunks = ret.citedChunks

\* the same with the one exception of the resume-only step, which stores
\* "resume" with a turn it returns as "rag"
C26_StoredTurnMatchesBundleButResume ==
  (pc = "done" /\ Len(NewAssistantTurns) > 0) =>
    /\ StoredAnswer.text = ret.answer
    /\ StoredAnswer.citedChunks.chunks = ret.citedChunks
    /\ \/ StoredAnswer.source = ret.source
       \/ StoredAnswer.source = "resume" /\ ret.source = "rag"

OwnerOf(c) == convs[c].userId

\* C27: every turn a call of askQuestion writes goes into a conversation of
\* the requesting user, and the history it reads comes from a conversation of
\* the requesting user.
C27_OnlyOwnConversation ==
  /\ \A i \in 1..Len(NewMessages) : OwnerOf(NewMessages[i].conversationId) = userId
  /\ Len(history) > 0 => OwnerOf(finalConversationId) = userId

\* a conversation the call creates is the requesting user's
C27_CreatedConversationIsOwn ==
  (finalConversationId # NoConv /\ finalConversationId # conversationId) =>
    OwnerOf(finalConversationId) = userId

\* ------------------------------------------------------------------------
\* Two calls of askQuestion in flight at once.  The process runs one call up
\* to its next await and may then resume any other call; the variables of
\* the request hold the call that is running, parked the calls that wait,
\* each as it was left.
\* ------------------------------------------------------------------------
Registers ==
  [pc |-> pc, question |-> question, userId |-> userId,
   conversationId |-> conversationId, finalConversationId |-> finalConversationId,
   llmReply |-> llmReply, analysis |-> analysis, history |-> history,
   jobChunks |-> jobChunks, ragResults |-> ragResults, ret |-> ret, calls |-> calls,
   startMessages |-> startMessages, answering |-> answering]

\* askQuestion(q, "u1", c) has passed input validation with nothing stored yet
Entered(q, c) ==
  [pc |-> "getConv", question |-> q, userId |-> "u1", conversationId |-> c,
   finalConversationId |-> NoConv, llmReply |-> NoReply, analysis |-> NoAnalysis,
   history |-> <<>>, jobChunks |-> <<>>, ragResults |-> <<>>, ret |-> NoBundle,
   calls |-> <<>>, startMessages |-> Len(messages), answering |-> NoAnswer]

\* the event loop resumes the call that has waited longest
Switch ==
  /\ parked # <<>>
  /\ LET resumed == Head(parked)
     IN  /\ pc' = resumed.pc
         /\ question' = resumed.question
         /\ userId' = resumed.userId
         /\ conversationId' = resumed.conversationId
         /\ finalConversationId' = resumed.finalConversationId
         /\ llmReply' = resumed.llmReply
         /\ analysis' = resumed.analysis
         /\ history' = resumed.history
         /\ jobChunks' = resumed.jobChunks
         /\ ragResults' = resumed.ragResults
         /\ ret' = resumed.ret
         /\ calls' = resumed.calls
         /\ startMessages' = resumed.startMessages
         /\ answering' = resumed.answering
  /\ parked' = Append(Tail(parked), Registers)
  /\ UNCHANGED <<stores, bench, outputs, nreq, pendingCache>>

\* u1 sends two questions at once, both with the same conversation id: none,
\* the id of a stored conversation, or an id that is not stored
InitConcurrent ==
  /\ \E s \in InitialStores :
       /\ convs = s.convs
       /\ messages = s.messages
       /\ cacheEntries = s.cacheEntries
  /\ \E c \in {NoConv, GhostId} \cup DOMAIN convs :
       /\ conversationId = c
       /\ \E q \in {Q1, Q2} : parked = <<Entered(q, c)>>
  /\ pc = "getConv"
  /\ question = Q1
  /\ InitLocals_Running
  /\ startMessages = Len(messages)

\* what the collaborators answer while two calls are in flight: no call
\* fails, the classifier finds the question irrelevant, a resume query or a
\* job search, the retrievals give nothing or a relevant set, and an accepted
\* answer is the good one
ConcurrentAnalyses ==
  {NoAnalysis, SafeDefault(question),
   [intent |-> "resume_query", confidence |-> Num(90), rewrittenQuery |-> "rq",
    jobSearch |-> JobUndef],
   [intent |-> "job_search", confidence |-> Num(90), rewrittenQuery |-> "rq",
    jobSearch |-> JobObj(SkillsArr(<<"ts">>))]}
Calm ==
  /\ \A i \in 1..Len(calls) : calls[i].ok
  /\ analysis \in ConcurrentAnalyses
  /\ ragResults \in {<<>>, RagChunksOf(<<90, 90>>)}
  /\ jobChunks \in {<<>>, JobChunksOf(1)}
  /\ answering.text \in {"", GoodAnswer, GuardrailMessage, ErrorAnswer}

NextConcurrent ==
  \/ Switch
  \/ PipelineStep /\ Calm'

SpecConcurrent == InitConcurrent /\ [][NextConcurrent]_vars

\* ------------------------------------------------------------------------
\* the order of the stored turns of a conversation
\* ------------------------------------------------------------------------
TurnsOf(c) == InConversation(messages, c)

\* C28: in every conversation the stored turns alternate, a user turn first
\* and one assistant turn after each user turn before the next user turn.
C28_TurnsAlternate ==
  \A c \in 1..Len(convs) :
    \A i \in 1..Len(TurnsOf(c)) :
      TurnsOf(c)[i].role = (IF i % 2 = 1 THEN "user" ELSE "assistant")

\* no conversation stores two assistant turns in a row, and each begins with
\* a user turn
C28_OneAnswerPerQuestion ==
  \A c \in 1..Len(convs) :
    \A i \in 1..Len(TurnsOf(c)) :
      TurnsOf(c)[i].role = "assistant" => (i > 1 /\ TurnsOf(c)[i - 1].role = "user")

\* ------------------------------------------------------------------------
\* uploadChunksToPinecone (services/createEmbeddings.service.ts), run up to
\* MaxUploads times on the same database and index, beside any number of
\* calls of initPinecone (services/initPinecone.service.ts).  fnArgs holds
\* the arguments and locals of the upload in progress; fnResult holds the
\* database, the index, and the position and locals of the initPinecone call
\* in flight.
\* ------------------------------------------------------------------------
MaxUploads == 2
MaxDocChunks == 3

VECTOR_DIM == 1536
\* the polls of waitForIndexReady in the current revision and in the earlier
\* one, and of waitForIndexAccessible
MAX_RETRIES == 20
MAX_RETRIES_EARLIER == 15
ACCESSIBLE_RETRIES == 10

\* what one pinecone.describeIndex gives: status.ready, a status that is not
\* ready, or a throw
PollOutcomes == {"ready", "notReady", "throws"}

\* trimmed lengths of the chunks the splitter returns
ChunkChars == {40, 120}
\* what embedQuery does with a chunk: a vector of some dimension, or a throw,
\* written as dimension 0
EmbedOutcomes == {0, 768, VECTOR_DIM}
EmbedThrows(e) == e = 0

Documents == UNION {[1..n -> ChunkChars] : n \in 0..MaxDocChunks}

\* sectionChunks.filter((c) => c.trim().length > 50)
filteredSectionChunks(doc) == SelectSeq([i \in 1..Len(doc) |-> [pos |-> i, chars |-> doc[i]]],
                                        LAMBDA c : c.chars > 50)

\* an embedding loop that advances its counter before the push
RECURSIVE createChunkedEmbeddings_CountsBeforePush(_, _)
createChunkedEmbeddings_CountsBeforePush(chunks, embed) ==
  IF Len(chunks) = 0 THEN <<>>
  ELSE LET c == chunks[Len(chunks)]
           before == createChunkedEmbeddings_CountsBeforePush(
                       SubSeq(chunks, 1, Len(chunks) - 1), embed)
       IN  IF EmbedThrows(embed[Len(chunks)]) THEN before
           ELSE Append(before, [chunk |-> c.pos, chars |-> c.chars,
                                embedding |-> embed[Len(chunks)], index |-> Len(before) + 1])

\* the embedding loop of the current revision: a chunk whose embedding throws
\* is skipped and globalChunkIndex advances only after a push
RECURSIVE createChunkedEmbeddings(_, _)
createChunkedEmbeddings(chunks, embed) ==
  IF Len(chunks) = 0 THEN <<>>
  ELSE LET c == chunks[Len(chunks)]
           before == createChunkedEmbeddings(SubSeq(chunks, 1, Len(chunks) - 1), embed)
       IN  IF EmbedThrows(embed[Len(chunks)]) THEN before
           ELSE Append(before, [chunk |-> c.pos, chars |-> c.chars,
                                embedding |-> embed[Len(chunks)], index |-> Len(before)])

\* the embedding loop of the earlier revision (part_002 80-131): a chunk
\* whose embedding throws is skipped and the pushed chunks carry the loop
\* counter i, their place among the filtered chunks
RECURSIVE createChunkedEmbeddings_Earlier(_, _)
createChunkedEmbeddings_Earlier(chunks, embed) ==
  IF Len(chunks) = 0 THEN <<>>
  ELSE LET c == chunks[Len(chunks)]
           before == createChunkedEmbeddings_Earlier(SubSeq(chunks, 1, Len(chunks) - 1), embed)
       IN  IF EmbedThrows(embed[Len(chunks)]) THEN before
           ELSE Append(before, [chunk |-> c.pos, chars |-> c.chars,
                                embedding |-> embed[Len(chunks)], index |-> Len(chunks) - 1])

\* the input checks of upsertVector
ValidUpsert(id, dim, chars) == id # 0 /\ dim = VECTOR_DIM /\ chars # 0

\* embed holds what embedQuery gave for the filtered chunks reached so far
NoUpload == [fn |-> "uploadChunksToPinecone", userId |-> "", doc |-> <<>>, resume |-> 0,
             embed |-> <<>>, chunksWithEmbeddings |-> <<>>, next |-> 1, pineconeId |-> 0]

\* the revisions of initPinecone the repository holds: the current one
\* (initPinecone.service.ts 64-151), the one that cleans the index on every
\* call (169-224), the one that cleans an index it finds holding records
\* (part_000 36-97), and the first one, which only creates the index
\* (part_000 102-124)
Revisions == {"reuses", "cleans", "cleansIfAny", "creates"}
\* the revisions of createChunkedEmbeddings: the current one
\* (createEmbeddings.service.ts 160-249) and the earlier one (part_002 80-131)
Numberings == {"globalChunkIndex", "loopCounter"}

\* no initPinecone call in flight
NoInit == [pc |-> "none", isNewIndex |-> FALSE, i |-> 0]

\* vectors is what the index holds, upserted the ids every successful upsert
\* has written
EmptyDatabase == [fn |-> "uploadChunksToPinecone", runs |-> 0, uuids |-> 0,
                  resumes |-> <<>>, resumeChunks |-> <<>>, vectors |-> <<>>,
                  upserted |-> {},
                  revision |-> "reuses", numbering |-> "globalChunkIndex",
                  indexExists |-> TRUE, isInitialized |-> FALSE,
                  init |-> NoInit, initEnded |-> "none"]

\* an empty database; the index "rag-index" exists or does not
InitUpload ==
  /\ PipelineAtRest
  /\ pc = "idle"
  /\ fnArgs = NoUpload
  /\ \E revision \in Revisions, numbering \in Numberings, indexExists \in BOOLEAN :
       fnResult = [EmptyDatabase EXCEPT !.revision = revision, !.numbering = numbering,
                                        !.indexExists = indexExists]

\* uploadChunksToPinecone(text, fileName, userId) up to its second await:
\* prisma.resume.create, whose throw ends the run; then createChunkedEmbeddings
\* throws for a text that is empty, and with no chunk to embed it returns no
\* chunk and the run throws; otherwise the first embedQuery is issued
UploadChunksToPinecone ==
  /\ pc \in {"idle", "uploaded", "uploadFailed"}
  /\ fnResult.runs < MaxUploads
  /\ \E doc \in Documents, createOk \in BOOLEAN :
       LET resume == Len(fnResult.resumes) + 1
           created == [fnResult EXCEPT !.runs = @ + 1,
                         !.resumes = Append(@, [userId |-> userId, run |-> fnResult.runs + 1])]
       IN  IF ~createOk
             THEN /\ fnArgs' = NoUpload
                  /\ fnResult' = [fnResult EXCEPT !.runs = @ + 1]
                  /\ pc' = "uploadFailed"
           ELSE IF Len(doc) = 0 \/ Len(filteredSectionChunks(doc)) = 0
             THEN /\ fnArgs' = NoUpload
                  /\ fnResult' = created
                  /\ pc' = "uploadFailed"
           ELSE /\ fnArgs' = [NoUpload EXCEPT !.userId = userId, !.doc = doc, !.resume = resume]
                /\ fnResult' = created
                /\ pc' = "embed"
  /\ UNCHANGED pipeline

\* one turn of the embedding loop: embeddings.embedQuery of the next filtered
\* chunk; after the last one createChunkedEmbeddings returns the chunks that
\* were embedded, numbered as the revision in use numbers them, and the run
\* throws when there is none
EmbedQuery ==
  /\ pc = "embed"
  /\ \E e \in EmbedOutcomes :
       LET chunks == filteredSectionChunks(fnArgs.doc)
           embed == Append(fnArgs.embed, e)
           embedded == IF fnResult.numbering = "globalChunkIndex"
                         THEN createChunkedEmbeddings(chunks, embed)
                         ELSE createChunkedEmbeddings_Earlier(chunks, embed)
       IN  IF Len(embed) < Len(chunks)
             THEN /\ fnArgs' = [fnArgs EXCEPT !.embed = embed]
                  /\ pc' = "embed"
           ELSE IF Len(embedded) = 0
             THEN /\ fnArgs' = NoUpload
                  /\ pc' = "uploadFailed"
           ELSE /\ fnArgs' = [fnArgs EXCEPT !.embed = embed, !.chunksWithEmbeddings = embedded]
                /\ pc' = "upsert"
  /\ UNCHANGED <<pipeline, fnResult>>

\* one turn of the upload loop, first half: uuid() and upsertVector; the
\* index takes a vector only when it exists
UpsertVector ==
  /\ pc = "upsert"
  /\ fnArgs.next <= Len(fnArgs.chunksWithEmbeddings)
  /\ LET item == fnArgs.chunksWithEmbeddings[fnArgs.next]
         id == fnResult.uuids + 1
     IN  \E upsertOk \in BOOLEAN :
           IF ValidUpsert(id, item.embedding, item.chars) /\ upsertOk /\ fnResult.indexExists
             THEN /\ fnResult' = [fnResult EXCEPT !.uuids = id,
                                    !.vectors = Append(@, [id |-> id, chunkIndex |-> item.index,
                                                           documentId |-> "unknown"]),
                                    !.upserted = @ \cup {id}]
                  /\ fnArgs' = [fnArgs EXCEPT !.pineconeId = id]
                  /\ pc' = "storeChunk"
             ELSE /\ fnResult' = [fnResult EXCEPT !.uuids = id]
                  /\ fnArgs' = NoUpload
                  /\ pc' = "uploadFailed"
  /\ UNCHANGED pipeline

\* second half: prisma.resumeChunk.create
CreateResumeChunk ==
  /\ pc = "storeChunk"
  /\ LET item == fnArgs.chunksWithEmbeddings[fnArgs.next]
     IN  \E createOk \in BOOLEAN :
           IF createOk
             THEN /\ fnResult' = [fnResult EXCEPT !.resumeChunks =
                                    Append(@, [resumeId |-> fnArgs.resume, userId |-> fnArgs.userId,
                                               chunkIndex |-> item.index,
                                               pineconeId |-> fnArgs.pineconeId,
                                               source |-> "resume", run |-> fnResult.runs])]
                  /\ IF fnArgs.next = Len(fnArgs.chunksWithEmbeddings)
                       THEN fnArgs' = NoUpload /\ pc' = "uploaded"
                       ELSE fnArgs' = [fnArgs EXCEPT !.next = @ + 1] /\ pc' = "upsert"
             ELSE /\ pc' = "uploadFailed"
                  /\ fnArgs' = NoUpload
                  /\ UNCHANGED fnResult
  /\ UNCHANGED pipeline

\* the initPinecone call in flight moves to its next await
InitContinues(db, next, isNew, i) ==
  fnResult' = [db EXCEPT !.init = [pc |-> next, isNewIndex |-> isNew, i |-> i]]

\* the initPinecone call in flight returns the index or throws
InitEnds(db, how) ==
  fnResult' = [db EXCEPT !.init = NoInit, !.initEnded = how]

\* initPinecone() up to its first await, and pinecone.listIndexes: the
\* current revision returns at once when it has initialised before; a throw
\* of listIndexes is rethrown; otherwise the call goes on by whether
\* "rag-index" is among the indexes
initPinecone ==
  /\ fnResult.init.pc = "none"
  /\ LET called == [fnResult EXCEPT !.initEnded = "none"]
     IN  IF fnResult.revision = "reuses" /\ fnResult.isInitialized
           THEN InitEnds(called, "returned")
         ELSE \E listOk \in BOOLEAN :
           IF ~listOk THEN InitEnds(called, "thrown")
           ELSE IF ~fnResult.indexExists THEN InitContinues(called, "createIndex", FALSE, 0)
           ELSE IF fnResult.revision = "reuses"
             THEN InitContinues(called, "waitForIndexAccessible", FALSE, 0)
           ELSE IF fnResult.revision = "cleans" THEN InitContinues(called, "deleteAll", FALSE, 0)
           ELSE IF fnResult.revision = "cleansIfAny"
             THEN InitContinues(called, "describeIndexStats", FALSE, 0)
           ELSE InitEnds(called, "returned")
  /\ UNCHANGED <<pipeline, fnArgs, pc>>

\* pinecone.createIndex: a throw is rethrown; the first revision returns the
\* index, the later ones wait for it to be ready, the cleaning one in a loop
\* of its own that reads the stats first
CreateIndex ==
  /\ fnResult.init.pc = "createIndex"
  /\ \E createOk \in BOOLEAN :
       LET created == [fnResult EXCEPT !.indexExists = TRUE]
       IN  IF ~createOk THEN InitEnds(fnResult, "thrown")
           ELSE IF fnResult.revision = "creates" THEN InitEnds(created, "returned")
           ELSE IF fnResult.revision = "cleans" THEN InitContinues(created, "readyStats", TRUE, 0)
           ELSE InitContinues(created, "waitForIndexReady", TRUE, 0)
  /\ UNCHANGED <<pipeline, fnArgs, pc>>

\* one poll of the wait for a created index, pinecone.describeIndex: at
\* status.ready the wait is over; waitForIndexReady catches a throw and goes
\* on to its delay, the loop of the cleaning revision lets it through
WaitForIndexReady ==
  /\ fnResult.init.pc = "waitForIndexReady"
  /\ \E o \in PollOutcomes :
       IF o = "ready"
         THEN IF fnResult.revision = "reuses"
                THEN InitContinues(fnResult, "waitForIndexAccessible", TRUE, 0)
              ELSE IF fnResult.revision = "cleans"
                THEN InitContinues(fnResult, "deleteAll", TRUE, 0)
              ELSE InitContinues(fnResult, "describeIndexStats", TRUE, 0)
       ELSE IF o = "throws" /\ fnResult.revision = "cleans" THEN InitEnds(fnResult, "thrown")
       ELSE InitContinues(fnResult, "readyDelay", TRUE, fnResult.init.i)
  /\ UNCHANGED <<pipeline, fnArgs, pc>>

\* the delay after a poll that was not ready: waitForIndexReady counts the
\* poll and throws after the last one, the loop of the cleaning revision
\* starts over without counting
ReadyDelay ==
  /\ fnResult.init.pc = "readyDelay"
  /\ LET i == fnResult.init.i + 1
         maxRetries == IF fnResult.revision = "reuses" THEN MAX_RETRIES
                       ELSE MAX_RETRIES_EARLIER
     IN  IF fnResult.revision = "cleans" THEN InitContinues(fnResult, "readyStats", TRUE, 0)
         ELSE IF i < maxRetries THEN InitContinues(fnResult, "waitForIndexReady", TRUE, i)
         ELSE InitEnds(fnResult, "thrown")
  /\ UNCHANGED <<pipeline, fnArgs, pc>>

\* one poll of waitForIndexAccessible, index.describeIndexStats: when it
\* answers the index is returned, a throw is caught and the delay follows
WaitForIndexAccessible ==
  /\ fnResult.init.pc = "waitForIndexAccessible"
  /\ \E accessible \in BOOLEAN :
       IF accessible
         THEN InitContinues(fnResult, "describeIndexStats", fnResult.init.isNewIndex, 0)
       ELSE InitContinues(fnResult, "accessibleDelay", fnResult.init.isNewIndex,
                          fnResult.init.i)
  /\ UNCHANGED <<pipeline, fnArgs, pc>>

\* the delay after a poll that threw; after the last poll
\* waitForIndexAccessible throws: for an index that was found the throw is
\* caught and the index instantiated directly, for a created index it is
\* rethrown
AccessibleDelay ==
  /\ fnResult.init.pc = "accessibleDelay"
  /\ LET i == fnResult.init.i + 1
     IN  IF i < ACCESSIBLE_RETRIES
           THEN InitContinues(fnResult, "waitForIndexAccessible", fnResult.init.isNewIndex, i)
         ELSE IF fnResult.init.isNewIndex THEN InitEnds(fnResult, "thrown")
         ELSE InitContinues(fnResult, "describeIndexStats", FALSE, 0)
  /\ UNCHANGED <<pipeline, fnArgs, pc>>

\* index.describeIndexStats.  At the end of the current revision its throw is
\* caught, isInitialized is set and the index returned.  In the revision that
\* cleans an index holding records its throw is caught too, and deleteAll
\* follows when the count is positive and the index was not created by this
\* call.  In the waiting loop of the cleaning revision its throw is rethrown
\* and describeIndex follows
DescribeIndexStats ==
  /\ fnResult.init.pc \in {"describeIndexStats", "readyStats"}
  /\ \E statsOk \in BOOLEAN :
       LET vectorCount == Len(fnResult.vectors)
       IN  IF fnResult.init.pc = "readyStats"
             THEN IF statsOk THEN InitContinues(fnResult, "waitForIndexReady", TRUE, 0)
                  ELSE InitEnds(fnResult, "thrown")
           ELSE IF fnResult.revision = "reuses"
             THEN InitEnds([fnResult EXCEPT !.isInitialized = TRUE], "returned")
           ELSE IF statsOk /\ vectorCount > 0 /\ ~fnResult.init.isNewIndex
             THEN InitContinues(fnResult, "deleteAll", FALSE, 0)
           ELSE InitEnds(fnResult, "returned")
  /\ UNCHANGED <<pipeline, fnArgs, pc>>

\* index.deleteAll: the index loses every vector and the database keeps its
\* rows; a throw is rethrown by the revision that always cleans and caught by
\* the other
DeleteAll ==
  /\ fnResult.init.pc = "deleteAll"
  /\ \E deleteOk \in BOOLEAN :
       IF deleteOk
         THEN InitEnds([fnResult EXCEPT !.vectors = <<>>], "returned")
       ELSE InitEnds(fnResult, IF fnResult.revision = "cleans" THEN "thrown" ELSE "returned")
  /\ UNCHANGED <<pipeline, fnArgs, pc>>

NextUpload ==
  \/ UploadChunksToPinecone
  \/ EmbedQuery
  \/ UpsertVector
  \/ CreateResumeChunk
  \/ initPinecone
  \/ CreateIndex
  \/ WaitForIndexReady
  \/ ReadyDelay
  \/ WaitForIndexAccessible
  \/ AccessibleDelay
  \/ DescribeIndexStats
  \/ DeleteAll

SpecUpload == InitUpload /\ [][NextUpload]_vars

ChunksOfResume(r) == SelectSeq(fnResult.resumeChunks, LAMBDA row : row.resumeId = r)
\* the ids upserted so far, and the ids the index holds now
UpsertedIds == fnResult.upserted
IndexedIds == {fnResult.vectors[i].id : i \in 1..Len(fnResult.vectors)}
StoredPineconeIds == {fnResult.resumeChunks[i].pineconeId : i \in 1..Len(fnResult.resumeChunks)}

\* each stored row names an id a successful upsert has already written and
\* belongs to the Resume record its run created
RowsFollowUpserts ==
  \A i \in 1..Len(fnResult.resumeChunks) :
    LET row == fnResult.resumeChunks[i]
    IN  /\ row.pineconeId \in UpsertedIds
        /\ row.resumeId \in 1..Len(fnResult.resumes)
        /\ fnResult.resumes[row.resumeId].run = row.run

\* the rows of every resume carry the chunk indexes 0..k-1 in upload order
IndexesContiguous ==
  \A r \in 1..Len(fnResult.resumes) :
    \A i \in 1..Len(ChunksOfResume(r)) : ChunksOfResume(r)[i].chunkIndex = i - 1

\* the rows of every resume carry chunk indexes that grow in upload order
IndexesIncrease ==
  \A r \in 1..Len(fnResult.resumes) :
    \A i \in 1..Len(ChunksOfResume(r)) :
      /\ ChunksOfResume(r)[i].chunkIndex >= i - 1
      /\ i > 1 => ChunksOfResume(r)[i - 1].chunkIndex < ChunksOfResume(r)[i].chunkIndex

\* C29, as stated: during and after every run of uploadChunksToPinecone, each
\* stored ResumeChunk row names a pineconeId already upserted into the index,
\* belongs to the Resume record the storing run created, and the rows of a
\* resume carry the chunk indexes 0..k-1 in upload order.
C29_StoredChunksAreUploaded == RowsFollowUpserts /\ IndexesContiguous

\* C29, amended: during and after every run of uploadChunksToPinecone, each
\* stored ResumeChunk row names a pineconeId that a successful upsert has
\* already written into the index (whatever initPinecone does beside the
\* run) and belongs to the Resume record the storing run created; the chunk
\* indexes of the rows of a resume grow in upload order, and they are 0..k-1
\* when createChunkedEmbeddings numbers with globalChunkIndex, while under the
\* earlier numbering by loop counter a chunk that failed to embed leaves a
\* gap.
C29_StoredChunksAreUploadedInOrder ==
  /\ RowsFollowUpserts
  /\ IndexesIncrease
  /\ fnResult.numbering = "globalChunkIndex" => IndexesContiguous

\* a second run numbering with globalChunkIndex, in which a chunk failed to
\* embed, has stored its first row and upserted the vector of its second
\* chunk, after a first run that stored rows and left a vector without a row
C29_Witness ==
  /\ pc = "storeChunk"
  /\ fnResult.numbering = "globalChunkIndex"
  /\ fnResult.runs = 2
  /\ fnArgs.next = 2
  /\ Len(fnArgs.chunksWithEmbeddings) < Len(filteredSectionChunks(fnArgs.doc))
  /\ Len(ChunksOfResume(fnArgs.resume)) = 1
  /\ Len(ChunksOfResume(1)) >= 1
  /\ fnArgs.resume # 1
  /\ Cardinality(fnResult.upserted) > Len(fnResult.resumeChunks) + 1

\* under the numbering by loop counter the first chunk failed to embed and
\* the only row of the run carries chunk index 1
C29_GapWitness ==
  /\ pc = "uploaded"
  /\ fnResult.numbering = "loopCounter"
  /\ Len(ChunksOfResume(1)) = 1
  /\ ChunksOfResume(1)[1].chunkIndex = 1

\* the index loses a vector only in a deleteAll of a cleaning revision, which
\* leaves the rows alone; every other step keeps the vectors it found
C29_OnlyDeleteAllRemovesVectors ==
  [][\/ /\ Len(fnResult'.vectors) >= Len(fnResult.vectors)
        /\ SubSeq(fnResult'.vectors, 1, Len(fnResult.vectors)) = fnResult.vectors
     \/ /\ fnResult.init.pc = "deleteAll"
        /\ fnResult.revision \in {"cleans", "cleansIfAny"}
        /\ fnResult'.vectors = <<>>
        /\ fnResult'.resumeChunks = fnResult.resumeChunks]_vars

\* under the revisions without deleteAll every stored row has its vector in
\* the index
C29_StoredRowsAreIndexedUnlessCleaning ==
  fnResult.revision \in {"reuses", "creates"} =>
    (StoredPineconeIds \subseteq IndexedIds /\ IndexedIds = UpsertedIds)

\* every stored row has its vector in the index (not so after a deleteAll)
C29_StoredRowsAreIndexed == StoredPineconeIds \subseteq IndexedIds

\* an initPinecone that found the index holding the vectors of two stored
\* rows has emptied it, and the rows still name the deleted vectors
C29_CleanedWitness ==
  /\ fnResult.init.pc = "none"
  /\ fnResult.initEnded = "returned"
  /\ Len(fnResult.resumeChunks) = 2
  /\ fnResult.vectors = <<>>
  /\ pc = "uploaded"

\* ------------------------------------------------------------------------
\* waitForIndexReady (services/initPinecone.service.ts).  fnArgs holds the
\* argument and the loop counter, fnResult the polls made so far and how the
\* call ended.
\* ------------------------------------------------------------------------
MaxPolls == 4

InitWait ==
  /\ PipelineAtRest
  /\ pc = "poll"
  /\ \E m \in 0..MaxPolls : fnArgs = [fn |-> "waitForIndexReady", maxRetries |-> m, i |-> 0]
  /\ fnResult = [fn |-> "waitForIndexReady", polls |-> <<>>, ended |-> "no"]

\* a loop whose catch gives up at the first poll that throws
DescribeIndex_ThrowEndsLoop ==
  /\ pc = "poll"
  /\ fnArgs.i < fnArgs.maxRetries
  /\ \E o \in PollOutcomes :
       /\ fnResult' = [fnResult EXCEPT !.polls = Append(@, o),
                         !.ended = IF o = "ready" THEN "true"
                                   ELSE IF o = "throws" THEN "error" ELSE @]
       /\ pc' = IF o = "ready" THEN "returned" ELSE IF o = "throws" THEN "thrown" ELSE "sleep"
  /\ UNCHANGED <<pipeline, fnArgs>>

\* the loop test passed: describeIndex, return true when status.ready
DescribeIndex ==
  /\ pc = "poll"
  /\ fnArgs.i < fnArgs.maxRetries
  /\ \E o \in PollOutcomes :
       /\ fnResult' = [fnResult EXCEPT !.polls = Append(@, o),
                         !.ended = IF o = "ready" THEN "true" ELSE @]
       /\ pc' = IF o = "ready" THEN "returned" ELSE "sleep"
  /\ UNCHANGED <<pipeline, fnArgs>>

\* the RETRY_DELAY timer fires, i++
RetryDelay ==
  /\ pc = "sleep"
  /\ fnArgs' = [fnArgs EXCEPT !.i = @ + 1]
  /\ pc' = "poll"
  /\ UNCHANGED <<pipeline, fnResult>>

\* the loop test failed: throw
GiveUp ==
  /\ pc = "poll"
  /\ ~(fnArgs.i < fnArgs.maxRetries)
  /\ fnResult' = [fnResult EXCEPT !.ended = "error"]
  /\ pc' = "thrown"
  /\ UNCHANGED <<pipeline, fnArgs>>

NextWait ==
  \/ DescribeIndex
  \/ RetryDelay
  \/ GiveUp

\* every poll comes back and every timer fires
SpecWait == InitWait /\ [][NextWait]_vars /\ WF_vars(NextWait)

NotReadyBefore(n) == \A k \in 1..(n - 1) : fnResult.polls[k] # "ready"

WaitIsBounded ==
  /\ Len(fnResult.polls) <= fnArgs.maxRetries
  /\ NotReadyBefore(Len(fnResult.polls))
  /\ fnResult.ended = "true" <=>
       (Len(fnResult.polls) > 0 /\ fnResult.polls[Len(fnResult.polls)] = "ready")
  /\ fnResult.ended = "error" =>
       (Len(fnResult.polls) = fnArgs.maxRetries /\ NotReadyBefore(fnArgs.maxRetries + 1))

\* C30: waitForIndexReady(maxRetries) ends; it polls at most maxRetries times,
\* returns true at the first poll that reports ready, and throws only after
\* maxRetries polls none of which reported ready, a poll that throws counting
\* as not ready.
C30_WaitTerminates == []WaitIsBounded /\ <>(fnResult.ended # "no")

\* the call returned true at its last permitted poll after a poll that threw
C30_Witness ==
  /\ fnResult.ended = "true"
  /\ fnArgs.maxRetries >= 3
  /\ Len(fnResult.polls) = fnArgs.maxRetries
  /\ \E k \in 1..Len(fnResult.polls) : fnResult.polls[k] = "throws"
  /\ \E k \in 1..Len(fnResult.polls) : fnResult.polls[k] = "notReady"

====
